---- MODULE Spec2Model ----
(***************************************************************************)
(* Model of the workout progression engine of workout-timer:              *)
(* src/composables/useWorkout.js (the engine and its tick timer) as it is *)
(* driven by src/components/WorkoutTimer.vue.                              *)
(*                                                                         *)
(* The reactive refs of useWorkout are the variables.  Every handler of   *)
(* the composable is a pure operator from a state record to a state       *)
(* record (same name as in the source); an action applies one handler to  *)
(* the current state and then runs the isRunning watcher, which Vue       *)
(* flushes before the next macrotask (tick or click).                      *)
(***************************************************************************)
EXTENDS Integers, Sequences, FiniteSets, TLC

VARIABLES
    selectedWorkoutId,  \* ref: id of the selected workout, "none" for null
    phaseIndex,         \* ref: 0-based
    exerciseIndex,      \* ref: 0-based
    round,              \* ref: 1-based
    timeLeft,           \* ref: seconds (or the JS values undefined / NaN)
    isResting, isRoundRest, isRunning, isStarted, isFinished,
    soundEnabled,
    currentSide,        \* ref: "left" | "right" | "null"
    isSwitchingSides,
    partnerMode,
    timerInterval,      \* TRUE iff a setInterval handle is stored
    intervals,          \* platform: setInterval timers created and not cleared
    cues,               \* the audio hooks called by the last handler, in order
    lastOp,             \* name of the last handler that ran
    streak,             \* how many times in a row lastOp has run (capped)
    segTicks,           \* history: ticks spent so far in the current segment
    segStart,           \* history: timeLeft when the current segment was entered
    segCues,            \* history: the countdown cues of the current segment
    log,                \* history: the segments completed by ticks, in order
    wakeLock,           \* useWakeLock ref: id of the sentinel held, 0 for null
    isActive,           \* useWakeLock ref
    isSupported,        \* useWakeLock ref: 'wakeLock' in navigator
    requesting,         \* platform: navigator.wakeLock.request promises pending
    live,               \* platform: the sentinels that keep the screen awake
    releasing,          \* platform: sentinels whose release() promise is pending
    visible,            \* platform: document.visibilityState === 'visible'
    lost                \* history: the platform took a sentinel back and no
                        \* request has been granted since

vars == <<selectedWorkoutId, phaseIndex, exerciseIndex, round, timeLeft,
          isResting, isRoundRest, isRunning, isStarted, isFinished,
          soundEnabled, currentSide, isSwitchingSides, partnerMode,
          timerInterval, intervals, cues, lastOp, streak, segTicks, segStart,
          segCues, log,
          wakeLock, isActive, isSupported, requesting, live, releasing, visible,
          lost>>

wakeVars == <<wakeLock, isActive, isSupported, requesting, live, releasing>>

(***************************************************************************)
(* Bounds of the model: the catalog below is built from them.              *)
(***************************************************************************)
Rounds == 2     \* rounds of the multi-round phases of the catalog
Dur == 2        \* base duration (seconds) of the catalog's exercises
MaxStreak == 2  \* cap of the streak counter

(***************************************************************************)
(* JavaScript values.  A missing property reads as undefined; arithmetic   *)
(* on undefined gives NaN.  Both are encoded as integers outside the       *)
(* naturals; every comparison below goes through IsNum, as every JS        *)
(* comparison with undefined or NaN is false.                              *)
(***************************************************************************)
undefined == -1
NaN == -2
IsNum(x) == x >= 0

\* a || b on numbers: undefined, NaN and 0 are falsy
Or(a, b) == IF IsNum(a) /\ a # 0 THEN a ELSE b
\* a > 0
Positive(a) == IsNum(a) /\ a > 0
\* Math.max(a, b)
Max(a, b) == IF ~IsNum(a) \/ ~IsNum(b) THEN NaN ELSE IF a >= b THEN a ELSE b

PARTNER_REST_BONUS == 5

(***************************************************************************)
(* The catalog (workoutsList).  Exercises follow the README schema: a      *)
(* plain exercise has duration and restAfter, a bilateral one has          *)
(* perSideDuration, an optional switchRestDuration and restAfter.          *)
(***************************************************************************)
Plain(d, rest) ==
    [bilateral |-> FALSE, duration |-> d, perSideDuration |-> undefined,
     switchRestDuration |-> undefined, restAfter |-> rest]
Bilateral(perSide, switch, rest) ==
    [bilateral |-> TRUE, duration |-> undefined, perSideDuration |-> perSide,
     switchRestDuration |-> switch, restAfter |-> rest]
Phase(type, rounds, rbr, exercises) ==
    [type |-> type, rounds |-> rounds, restBetweenRounds |-> rbr,
     exercises |-> exercises]

WorkoutIds == {"full", "circuit", "stretch"}

workoutsList ==
    [id \in WorkoutIds |->
       IF id = "full"
       THEN <<Phase("warmup", 1, undefined,
                    <<Plain(Dur, 0), Bilateral(Dur, undefined, 1)>>),
              Phase("workout", Rounds, 3,
                    <<Bilateral(Dur, 1, 0), Plain(Dur, 0), Plain(Dur + 1, 2)>>),
              Phase("cooldown", 1, undefined,
                    <<Plain(Dur, 1)>>)>>
       ELSE IF id = "stretch"
       THEN <<Phase("warmup", 1, undefined,
                    <<Bilateral(Dur, 1, 0)>>)>>
       ELSE <<Phase("workout", Rounds, undefined,
                    <<Plain(Dur, 0), Plain(Dur + 1, 1)>>),
              Phase("cooldown", Rounds, undefined,
                    <<Plain(Dur, 0)>>),
              Phase("workout", Rounds, 2,
                    <<Bilateral(Dur, undefined, 0)>>)>>]

(***************************************************************************)
(* The state as one record, and the computed properties of useWorkout.     *)
(***************************************************************************)
S ==
    [selectedWorkoutId |-> selectedWorkoutId, phaseIndex |-> phaseIndex,
     exerciseIndex |-> exerciseIndex, round |-> round, timeLeft |-> timeLeft,
     isResting |-> isResting, isRoundRest |-> isRoundRest,
     isRunning |-> isRunning, isStarted |-> isStarted,
     isFinished |-> isFinished, soundEnabled |-> soundEnabled,
     currentSide |-> currentSide, isSwitchingSides |-> isSwitchingSides,
     partnerMode |-> partnerMode, timerInterval |-> timerInterval,
     intervals |-> intervals,
     cues |-> cues]

hasWorkout(s) == s.selectedWorkoutId # "none"
phases(s) == workoutsList[s.selectedWorkoutId]
currentPhase(s) == phases(s)[s.phaseIndex + 1]
exerciseAt(phase, i) == phase.exercises[i + 1]
currentExercise(s) == exerciseAt(currentPhase(s), s.exerciseIndex)
totalExercises(s) == Len(currentPhase(s).exercises)
totalRounds(s) == Or(currentPhase(s).rounds, 1)
isBilateralExercise(s) == currentExercise(s).bilateral
isWorkoutPhase(s) == currentPhase(s).type = "workout"
inPartner(s) == s.partnerMode /\ isWorkoutPhase(s)

partnerExerciseIndex_self(s) ==
    IF ~s.partnerMode \/ ~isWorkoutPhase(s) THEN -1
    ELSE s.exerciseIndex

\* null is encoded as -1 for the index
partnerExerciseIndex(s) ==
    IF ~s.partnerMode \/ ~isWorkoutPhase(s) THEN -1
    ELSE (s.exerciseIndex + 1) % totalExercises(s)

hasPartnerExercise(s) == partnerExerciseIndex(s) # -1
partnerExercise(s) == exerciseAt(currentPhase(s), partnerExerciseIndex(s))

getEffectiveDuration(exercise) ==
    IF exercise.bilateral /\ Positive(exercise.perSideDuration)
    THEN exercise.perSideDuration * 2 + Or(exercise.switchRestDuration, 5)
    ELSE exercise.duration

getPartnerModeRestDuration_ownRest(exerciseA, exerciseB) ==
    Or(exerciseA.restAfter, 0) + PARTNER_REST_BONUS

getPartnerModeRestDuration(exerciseA, exerciseB) ==
    Max(Or(exerciseA.restAfter, 0), Or(exerciseB.restAfter, 0))
      + PARTNER_REST_BONUS

\* null is encoded as -1 for the duration
partnerModeMaxDuration(s) ==
    IF ~hasWorkout(s) \/ ~s.partnerMode \/ ~isWorkoutPhase(s) THEN -1
    ELSE Max(getEffectiveDuration(currentExercise(s)),
             getEffectiveDuration(partnerExercise(s)))

partnerModeElapsed(s) ==
    IF ~Positive(partnerModeMaxDuration(s)) THEN 0
    ELSE IF IsNum(s.timeLeft) THEN partnerModeMaxDuration(s) - s.timeLeft
    ELSE NaN

\* the value null of the two bilateral states
noBilateralState == [side |-> "null", isSwitching |-> FALSE]

\* the part of personABilateralState and personBBilateralState after the
\* exercise is chosen
bilateralStateOf(s, exercise) ==
    IF ~hasWorkout(s) \/ ~s.partnerMode \/ ~isWorkoutPhase(s)
         \/ s.isResting \/ s.isRoundRest
    THEN noBilateralState
    ELSE IF ~exercise.bilateral THEN noBilateralState
    ELSE LET perSide == exercise.perSideDuration
             switchRest == Or(exercise.switchRestDuration, 5)
             elapsed == partnerModeElapsed(s)
         IN IF IsNum(elapsed) /\ elapsed < perSide
            THEN [side |-> "left", isSwitching |-> FALSE]
            ELSE IF IsNum(elapsed) /\ elapsed < perSide + switchRest
            THEN [side |-> "left", isSwitching |-> TRUE]
            ELSE [side |-> "right", isSwitching |-> FALSE]

personABilateralState(s) ==
    bilateralStateOf(s, IF hasWorkout(s) THEN currentExercise(s) ELSE Plain(0, 0))
personBBilateralState(s) ==
    bilateralStateOf(s, IF hasWorkout(s) /\ inPartner(s) THEN partnerExercise(s)
                        ELSE Plain(0, 0))

finishedEarlyOf_strict(s, exercise) ==
    IF ~hasWorkout(s) \/ ~s.partnerMode \/ ~isWorkoutPhase(s)
         \/ s.isResting \/ s.isRoundRest
    THEN FALSE
    ELSE LET elapsed == partnerModeElapsed(s)
         IN IsNum(elapsed) /\ elapsed > getEffectiveDuration(exercise)

\* the part of personAFinishedEarly and partnerFinishedEarly after the
\* exercise is chosen
finishedEarlyOf(s, exercise) ==
    IF ~hasWorkout(s) \/ ~s.partnerMode \/ ~isWorkoutPhase(s)
         \/ s.isResting \/ s.isRoundRest
    THEN FALSE
    ELSE LET elapsed == partnerModeElapsed(s)
         IN IsNum(elapsed) /\ elapsed >= getEffectiveDuration(exercise)

personAFinishedEarly(s) ==
    finishedEarlyOf(s, IF hasWorkout(s) THEN currentExercise(s) ELSE Plain(0, 0))
partnerFinishedEarly(s) ==
    finishedEarlyOf(s, IF hasWorkout(s) /\ inPartner(s) THEN partnerExercise(s)
                       ELSE Plain(0, 0))

(***************************************************************************)
(* Audio hooks: every call site is guarded by soundEnabled.                *)
(***************************************************************************)
Cue(hook, n) == [hook |-> hook, n |-> n]
\* mutant: the hook is called whether sound is enabled or not
Emit_unguarded(s, hook) == [s EXCEPT !.cues = Append(@, Cue(hook, 0))]
Emit(s, hook) ==
    IF s.soundEnabled THEN [s EXCEPT !.cues = Append(@, Cue(hook, 0))] ELSE s

\* initializeExercise sets currentSide and returns the value its caller
\* stores in timeLeft
initializeExercise(s, exercise) ==
    IF exercise.bilateral
    THEN [s EXCEPT !.currentSide = "left",
                   !.timeLeft = Or(exercise.perSideDuration, exercise.duration)]
    ELSE [s EXCEPT !.currentSide = "null", !.timeLeft = exercise.duration]

\* partnerEx is given as an index into phase, -1 for null
initializeExerciseWithPartnerMode(s, phase, exercise, partnerIdx) ==
    IF s.partnerMode /\ partnerIdx # -1
    THEN [s EXCEPT !.currentSide = "null", !.isSwitchingSides = FALSE,
                   !.timeLeft = Max(getEffectiveDuration(exercise),
                                    getEffectiveDuration(exerciseAt(phase, partnerIdx)))]
    ELSE initializeExercise(s, exercise)

\* mutant: the handle is dropped without clearInterval
stopTimer_dropsHandle(s) == [s EXCEPT !.timerInterval = FALSE]

stopTimer(s) ==
    IF s.timerInterval
    THEN [s EXCEPT !.intervals = @ - 1, !.timerInterval = FALSE]
    ELSE s

startTimer(s) ==
    IF s.timerInterval THEN s
    ELSE [s EXCEPT !.timerInterval = TRUE, !.intervals = @ + 1]

\* mutant: the terminal branch forgets isRunning = false
goToNextPhase_keepsRunning(s) ==
    IF ~hasWorkout(s) THEN s
    ELSE LET nextPhaseIdx == s.phaseIndex + 1 IN
         IF nextPhaseIdx >= Len(phases(s))
         THEN Emit(stopTimer([s EXCEPT !.isFinished = TRUE]), "playPhaseEnd")
         ELSE LET e == Emit(s, "playPhaseEnd")
                  t == [e EXCEPT !.phaseIndex = nextPhaseIdx, !.exerciseIndex = 0,
                                 !.round = 1, !.currentSide = "null",
                                 !.isSwitchingSides = FALSE]
              IN initializeExercise(t, exerciseAt(phases(s)[nextPhaseIdx + 1], 0))

\* mutant: the next phase starts in the round the previous one ended in
goToNextPhase_keepsRound(s) ==
    IF ~hasWorkout(s) THEN s
    ELSE LET nextPhaseIdx == s.phaseIndex + 1 IN
         IF nextPhaseIdx >= Len(phases(s))
         THEN Emit(stopTimer([s EXCEPT !.isFinished = TRUE, !.isRunning = FALSE]),
                   "playPhaseEnd")
         ELSE LET e == Emit(s, "playPhaseEnd")
                  t == [e EXCEPT !.phaseIndex = nextPhaseIdx, !.exerciseIndex = 0,
                                 !.currentSide = "null",
                                 !.isSwitchingSides = FALSE]
              IN initializeExercise(t, exerciseAt(phases(s)[nextPhaseIdx + 1], 0))

\* mutant: the terminal branch stops the run without isFinished = true
goToNextPhase_neverFinishes(s) ==
    IF ~hasWorkout(s) THEN s
    ELSE LET nextPhaseIdx == s.phaseIndex + 1 IN
         IF nextPhaseIdx >= Len(phases(s))
         THEN Emit(stopTimer([s EXCEPT !.isRunning = FALSE]), "playPhaseEnd")
         ELSE LET e == Emit(s, "playPhaseEnd")
                  t == [e EXCEPT !.phaseIndex = nextPhaseIdx, !.exerciseIndex = 0,
                                 !.round = 1, !.currentSide = "null",
                                 !.isSwitchingSides = FALSE]
              IN initializeExercise(t, exerciseAt(phases(s)[nextPhaseIdx + 1], 0))

\* mutant: a phase that has a successor ends without the phase-end cue
goToNextPhase_silent(s) ==
    IF ~hasWorkout(s) THEN s
    ELSE LET nextPhaseIdx == s.phaseIndex + 1 IN
         IF nextPhaseIdx >= Len(phases(s))
         THEN Emit(stopTimer([s EXCEPT !.isFinished = TRUE, !.isRunning = FALSE]),
                   "playPhaseEnd")
         ELSE LET t == [s EXCEPT !.phaseIndex = nextPhaseIdx, !.exerciseIndex = 0,
                                 !.round = 1, !.currentSide = "null",
                                 !.isSwitchingSides = FALSE]
              IN initializeExercise(t, exerciseAt(phases(s)[nextPhaseIdx + 1], 0))

goToNextPhase(s) ==
    IF ~hasWorkout(s) THEN s
    ELSE LET nextPhaseIdx == s.phaseIndex + 1 IN
         IF nextPhaseIdx >= Len(phases(s))
         THEN Emit(stopTimer([s EXCEPT !.isFinished = TRUE, !.isRunning = FALSE]),
                   "playPhaseEnd")
         ELSE LET e == Emit(s, "playPhaseEnd")
                  t == [e EXCEPT !.phaseIndex = nextPhaseIdx, !.exerciseIndex = 0,
                                 !.round = 1, !.currentSide = "null",
                                 !.isSwitchingSides = FALSE]
              IN initializeExercise(t, exerciseAt(phases(s)[nextPhaseIdx + 1], 0))

\* lines 274 and 343: another round of the current phase is still to run
\* mutant: off by one, the last round counts as having a successor
moreRounds_offByOne(s) == s.round <= totalRounds(s)
moreRounds(s) == s.round < totalRounds(s)

\* line 313: the switch rest of a bilateral exercise
\* mutant: another default than getEffectiveDuration's
switchDuration_otherDefault(exercise) == Or(exercise.switchRestDuration, 3)
switchDuration(exercise) == Or(exercise.switchRestDuration, 5)

\* mutant: the landed exercise gets its own duration in partner mode too
leaveRest_ownDuration(s) ==
    LET nextEx == s.exerciseIndex + 1
        phase == currentPhase(s)
        moved ==
          IF nextEx >= totalExercises(s)
          THEN IF moreRounds(s)
               THEN LET r == [s EXCEPT !.round = @ + 1] IN
                    IF Positive(phase.restBetweenRounds)
                    THEN Emit([r EXCEPT !.isRoundRest = TRUE,
                                        !.timeLeft = phase.restBetweenRounds],
                              "playChange")
                    ELSE Emit(initializeExercise([r EXCEPT !.exerciseIndex = 0],
                                                 exerciseAt(phase, 0)),
                              "playStart")
               ELSE goToNextPhase(s)
          ELSE Emit(initializeExercise([s EXCEPT !.exerciseIndex = nextEx],
                                       exerciseAt(phase, nextEx)),
                    "playStart")
    IN [moved EXCEPT !.isResting = FALSE]

\* lines 270-304: leaving a rest between exercises
leaveRest(s) ==
    LET nextEx == s.exerciseIndex + 1
        phase == currentPhase(s)
        moved ==
          IF nextEx >= totalExercises(s)
          THEN IF moreRounds(s)
               THEN LET r == [s EXCEPT !.round = @ + 1] IN
                    IF Positive(phase.restBetweenRounds)
                    THEN Emit([r EXCEPT !.isRoundRest = TRUE,
                                        !.timeLeft = phase.restBetweenRounds],
                              "playChange")
                    ELSE Emit(initializeExerciseWithPartnerMode(
                                [r EXCEPT !.exerciseIndex = 0], phase,
                                exerciseAt(phase, 0),
                                IF inPartner(s) THEN 1 % totalExercises(s) ELSE -1),
                              "playStart")
               ELSE goToNextPhase(s)
          ELSE Emit(initializeExerciseWithPartnerMode(
                      [s EXCEPT !.exerciseIndex = nextEx], phase,
                      exerciseAt(phase, nextEx),
                      IF inPartner(s) THEN (nextEx + 1) % totalExercises(s) ELSE -1),
                    "playStart")
    IN [moved EXCEPT !.isResting = FALSE]

\* lines 326-364: end of an exercise, s.currentSide already reset
endExercise(s) ==
    LET ex == currentExercise(s)
        phase == currentPhase(s)
        hasRest == Positive(ex.restAfter)
                   \/ (inPartner(s) /\ Positive(partnerExercise(s).restAfter))
        nextEx == s.exerciseIndex + 1
    IN IF hasRest
       THEN Emit([s EXCEPT !.isResting = TRUE,
                           !.timeLeft = IF inPartner(s)
                                        THEN getPartnerModeRestDuration(ex, partnerExercise(s))
                                        ELSE ex.restAfter],
                 "playChange")
       ELSE IF nextEx >= totalExercises(s)
            THEN IF moreRounds(s)
                 THEN LET r == [s EXCEPT !.round = @ + 1] IN
                      IF Positive(phase.restBetweenRounds)
                      THEN Emit([r EXCEPT !.isRoundRest = TRUE,
                                          !.timeLeft = phase.restBetweenRounds],
                                "playChange")
                      ELSE Emit(initializeExercise([r EXCEPT !.exerciseIndex = 0],
                                                   exerciseAt(phase, 0)),
                                "playChange")
                 ELSE goToNextPhase(s)
            ELSE Emit(initializeExercise([s EXCEPT !.exerciseIndex = nextEx],
                                         exerciseAt(phase, nextEx)),
                      "playChange")

\* mutant: partner mode suppresses the switch rest in every phase type
nextStep_sidesOffInPartnerMode(s) ==
    IF ~hasWorkout(s) THEN s
    ELSE IF s.isSwitchingSides /\ ~inPartner(s)
    THEN Emit([s EXCEPT !.isSwitchingSides = FALSE, !.currentSide = "right",
                        !.timeLeft = currentExercise(s).perSideDuration],
              "playStart")
    ELSE IF s.isRoundRest
    THEN LET phase == currentPhase(s) IN
         Emit(initializeExerciseWithPartnerMode(
                [s EXCEPT !.isRoundRest = FALSE, !.exerciseIndex = 0], phase,
                exerciseAt(phase, 0),
                IF inPartner(s) THEN 1 % totalExercises(s) ELSE -1),
              "playStart")
    ELSE IF s.isResting
    THEN leaveRest(s)
    ELSE IF ~s.partnerMode /\ isBilateralExercise(s) /\ s.currentSide = "left"
    THEN Emit([s EXCEPT !.isSwitchingSides = TRUE,
                        !.timeLeft = switchDuration(currentExercise(s))],
              "playChange")
    ELSE IF ~inPartner(s) /\ isBilateralExercise(s) /\ s.currentSide = "right"
    THEN endExercise([s EXCEPT !.currentSide = "null"])
    ELSE endExercise(s)

nextStep(s) ==
    IF ~hasWorkout(s) THEN s
    ELSE IF s.isSwitchingSides /\ ~inPartner(s)
    THEN Emit([s EXCEPT !.isSwitchingSides = FALSE, !.currentSide = "right",
                        !.timeLeft = currentExercise(s).perSideDuration],
              "playStart")
    ELSE IF s.isRoundRest
    THEN LET phase == currentPhase(s) IN
         Emit(initializeExerciseWithPartnerMode(
                [s EXCEPT !.isRoundRest = FALSE, !.exerciseIndex = 0], phase,
                exerciseAt(phase, 0),
                IF inPartner(s) THEN 1 % totalExercises(s) ELSE -1),
              "playStart")
    ELSE IF s.isResting
    THEN leaveRest(s)
    ELSE IF ~inPartner(s) /\ isBilateralExercise(s) /\ s.currentSide = "left"
    THEN Emit([s EXCEPT !.isSwitchingSides = TRUE,
                        !.timeLeft = switchDuration(currentExercise(s))],
              "playChange")
    ELSE IF ~inPartner(s) /\ isBilateralExercise(s) /\ s.currentSide = "right"
    THEN endExercise([s EXCEPT !.currentSide = "null"])
    ELSE endExercise(s)

\* mutant: the landing plays the segment-start cue
landBackOn_playsStart(s, exercise) ==
    IF exercise.bilateral
    THEN Emit([s EXCEPT !.currentSide = "right", !.timeLeft = exercise.perSideDuration],
              "playStart")
    ELSE Emit([s EXCEPT !.currentSide = "null", !.timeLeft = exercise.duration],
              "playStart")

\* the landing used by every backward move of prevStep (lines 437-444 etc.)
landBackOn(s, exercise) ==
    IF exercise.bilateral
    THEN [s EXCEPT !.currentSide = "right", !.timeLeft = exercise.perSideDuration]
    ELSE [s EXCEPT !.currentSide = "null", !.timeLeft = exercise.duration]

\* mutant: at the very start the first exercise is begun again
stepBack_restartsFirst(s) ==
    IF s.exerciseIndex > 0
    THEN landBackOn([s EXCEPT !.exerciseIndex = @ - 1],
                    exerciseAt(currentPhase(s), s.exerciseIndex - 1))
    ELSE IF s.round > 1
    THEN LET lastEx == totalExercises(s) - 1 IN
         landBackOn([s EXCEPT !.round = @ - 1, !.exerciseIndex = lastEx],
                    exerciseAt(currentPhase(s), lastEx))
    ELSE IF s.phaseIndex > 0
    THEN LET prevPhase == phases(s)[s.phaseIndex]
             lastEx == Len(prevPhase.exercises) - 1
         IN landBackOn([s EXCEPT !.phaseIndex = @ - 1, !.round = prevPhase.rounds,
                                 !.exerciseIndex = lastEx],
                       exerciseAt(prevPhase, lastEx))
    ELSE initializeExercise(s, currentExercise(s))

\* lines 435-471 and 476-512: one exercise, round or phase backward
\* mutant: the first round has a predecessor too
stepBack_beforeFirstRound(s) ==
    IF s.exerciseIndex > 0
    THEN landBackOn([s EXCEPT !.exerciseIndex = @ - 1],
                    exerciseAt(currentPhase(s), s.exerciseIndex - 1))
    ELSE IF s.round > 0
    THEN LET lastEx == totalExercises(s) - 1 IN
         landBackOn([s EXCEPT !.round = @ - 1, !.exerciseIndex = lastEx],
                    exerciseAt(currentPhase(s), lastEx))
    ELSE s

stepBack(s) ==
    IF s.exerciseIndex > 0
    THEN landBackOn([s EXCEPT !.exerciseIndex = @ - 1],
                    exerciseAt(currentPhase(s), s.exerciseIndex - 1))
    ELSE IF s.round > 1
    THEN LET lastEx == totalExercises(s) - 1 IN
         landBackOn([s EXCEPT !.round = @ - 1, !.exerciseIndex = lastEx],
                    exerciseAt(currentPhase(s), lastEx))
    ELSE IF s.phaseIndex > 0
    THEN LET prevPhase == phases(s)[s.phaseIndex]
             lastEx == Len(prevPhase.exercises) - 1
         IN landBackOn([s EXCEPT !.phaseIndex = @ - 1, !.round = prevPhase.rounds,
                                 !.exerciseIndex = lastEx],
                       exerciseAt(prevPhase, lastEx))
    ELSE s

\* mutant: the rest of a bilateral exercise is left for its left side
prevStep_restToLeft(s) ==
    IF ~hasWorkout(s) THEN s
    ELSE IF s.isSwitchingSides
    THEN [s EXCEPT !.isSwitchingSides = FALSE, !.currentSide = "left",
                   !.timeLeft = currentExercise(s).perSideDuration]
    ELSE IF isBilateralExercise(s) /\ s.currentSide = "right"
    THEN [s EXCEPT !.currentSide = "left",
                   !.timeLeft = currentExercise(s).perSideDuration]
    ELSE IF s.isRoundRest
    THEN LET lastEx == totalExercises(s) - 1
             lastExercise == exerciseAt(currentPhase(s), lastEx)
         IN initializeExercise([s EXCEPT !.isRoundRest = FALSE,
                                         !.exerciseIndex = lastEx],
                               lastExercise)
    ELSE IF s.isResting
    THEN IF isBilateralExercise(s)
         THEN [s EXCEPT !.isResting = FALSE, !.currentSide = "left",
                        !.timeLeft = currentExercise(s).perSideDuration]
         ELSE [s EXCEPT !.isResting = FALSE,
                        !.timeLeft = currentExercise(s).duration]
    ELSE stepBack(s)

prevStep(s) ==
    IF ~hasWorkout(s) THEN s
    ELSE IF s.isSwitchingSides
    THEN [s EXCEPT !.isSwitchingSides = FALSE, !.currentSide = "left",
                   !.timeLeft = currentExercise(s).perSideDuration]
    ELSE IF isBilateralExercise(s) /\ s.currentSide = "right"
    THEN [s EXCEPT !.currentSide = "left",
                   !.timeLeft = currentExercise(s).perSideDuration]
    ELSE IF s.isRoundRest
    THEN LET lastEx == totalExercises(s) - 1
             lastExercise == exerciseAt(currentPhase(s), lastEx)
         IN initializeExercise([s EXCEPT !.isRoundRest = FALSE,
                                         !.exerciseIndex = lastEx],
                               lastExercise)
    ELSE IF s.isResting
    THEN IF isBilateralExercise(s)
         THEN [s EXCEPT !.isResting = FALSE, !.currentSide = "right",
                        !.timeLeft = currentExercise(s).perSideDuration]
         ELSE [s EXCEPT !.isResting = FALSE,
                        !.timeLeft = currentExercise(s).duration]
    ELSE stepBack(s)

\* the setInterval callback of startTimer
tick_decrementsFirst(s) ==
    IF IsNum(s.timeLeft) /\ s.timeLeft <= 0 THEN nextStep(s)
    ELSE LET c == IF IsNum(s.timeLeft) /\ s.timeLeft <= 4 /\ s.timeLeft > 1
                       /\ s.soundEnabled
                  THEN [s EXCEPT !.cues = Append(@, Cue("playCountdown", s.timeLeft - 1))]
                  ELSE s
         IN [c EXCEPT !.timeLeft = IF IsNum(@) THEN @ - 1 ELSE NaN]

tick_lateCountdown(s) ==
    IF IsNum(s.timeLeft) /\ s.timeLeft <= 1 THEN nextStep(s)
    ELSE LET c == IF IsNum(s.timeLeft) /\ s.timeLeft <= 3 /\ s.timeLeft > 1
                       /\ s.soundEnabled
                  THEN [s EXCEPT !.cues = Append(@, Cue("playCountdown", s.timeLeft - 1))]
                  ELSE s
         IN [c EXCEPT !.timeLeft = IF IsNum(@) THEN @ - 1 ELSE NaN]

tick(s) ==
    IF IsNum(s.timeLeft) /\ s.timeLeft <= 1
    THEN nextStep(s)
    ELSE LET c == IF IsNum(s.timeLeft) /\ s.timeLeft <= 4 /\ s.timeLeft > 1
                     /\ s.soundEnabled
                  THEN [s EXCEPT !.cues = Append(@, Cue("playCountdown", s.timeLeft - 1))]
                  ELSE s
         IN [c EXCEPT !.timeLeft = IF IsNum(@) THEN @ - 1 ELSE NaN]

\* mutant: a "resume" that sets the flag instead of flipping it
toggleRunning_sets(s) == [s EXCEPT !.isRunning = TRUE]
toggleRunning(s) == [s EXCEPT !.isRunning = ~@]

selectWorkout(s, workoutId) == [s EXCEPT !.selectedWorkoutId = workoutId]

\* mutant: the reset forgets the round counter
resetWorkoutState_keepsRound(s) ==
    [s EXCEPT !.phaseIndex = 0, !.exerciseIndex = 0, !.timeLeft = 0,
              !.isResting = FALSE, !.isRoundRest = FALSE, !.isRunning = FALSE,
              !.isStarted = FALSE, !.isFinished = FALSE, !.currentSide = "null",
              !.isSwitchingSides = FALSE]

resetWorkoutState(s) ==
    [s EXCEPT !.phaseIndex = 0, !.exerciseIndex = 0, !.round = 1, !.timeLeft = 0,
              !.isResting = FALSE, !.isRoundRest = FALSE, !.isRunning = FALSE,
              !.isStarted = FALSE, !.isFinished = FALSE, !.currentSide = "null",
              !.isSwitchingSides = FALSE]

goToSelection(s) ==
    resetWorkoutState([stopTimer(s) EXCEPT !.selectedWorkoutId = "none"])

goToOverview(s) == [stopTimer(s) EXCEPT !.isRunning = FALSE, !.isStarted = FALSE]

\* lines 580-585, 610-615, 636-641: the first exercise of targetPhase
enterPhase(s, targetPhase) ==
    IF s.partnerMode /\ targetPhase.type = "workout"
    THEN initializeExerciseWithPartnerMode(s, targetPhase, exerciseAt(targetPhase, 0),
                                           1 % Len(targetPhase.exercises))
    ELSE initializeExercise(s, exerciseAt(targetPhase, 0))

start(s) ==
    IF ~hasWorkout(s) THEN s
    ELSE Emit([enterPhase(s, phases(s)[1])
                 EXCEPT !.isStarted = TRUE, !.isRunning = TRUE],
              "playStart")

\* mutant: switching partner mode on or off restarts the exercise in flight
setPartnerMode_reinitializes(s, enabled) ==
    IF hasWorkout(s)
    THEN initializeExercise([s EXCEPT !.partnerMode = enabled], currentExercise(s))
    ELSE [s EXCEPT !.partnerMode = enabled]

setPartnerMode(s, enabled) == [s EXCEPT !.partnerMode = enabled]
togglePartnerMode(s) == [s EXCEPT !.partnerMode = ~@]

startFromPhase(s, targetPhaseIndex) ==
    IF ~hasWorkout(s) THEN s
    ELSE IF targetPhaseIndex < 0 \/ targetPhaseIndex >= Len(phases(s)) THEN s
    ELSE LET p == [s EXCEPT !.phaseIndex = targetPhaseIndex, !.exerciseIndex = 0,
                            !.round = 1]
         IN Emit([enterPhase(p, phases(s)[targetPhaseIndex + 1])
                    EXCEPT !.isResting = FALSE, !.isRoundRest = FALSE,
                           !.isSwitchingSides = FALSE, !.isStarted = TRUE,
                           !.isRunning = TRUE, !.isFinished = FALSE],
                 "playStart")

\* mutant: the jump also resumes a paused workout
goToPhase_resumes(s, targetPhaseIndex) ==
    IF ~hasWorkout(s) THEN s
    ELSE IF targetPhaseIndex < 0 \/ targetPhaseIndex >= Len(phases(s)) THEN s
    ELSE IF targetPhaseIndex = s.phaseIndex THEN s
    ELSE LET p == [s EXCEPT !.phaseIndex = targetPhaseIndex, !.exerciseIndex = 0,
                            !.round = 1]
         IN Emit([enterPhase(p, phases(s)[targetPhaseIndex + 1])
                    EXCEPT !.isResting = FALSE, !.isRoundRest = FALSE,
                           !.isSwitchingSides = FALSE, !.isFinished = FALSE,
                           !.isRunning = TRUE],
                 "playChange")

goToPhase(s, targetPhaseIndex) ==
    IF ~hasWorkout(s) THEN s
    ELSE IF targetPhaseIndex < 0 \/ targetPhaseIndex >= Len(phases(s)) THEN s
    ELSE IF targetPhaseIndex = s.phaseIndex THEN s
    ELSE LET p == [s EXCEPT !.phaseIndex = targetPhaseIndex, !.exerciseIndex = 0,
                            !.round = 1]
         IN Emit([enterPhase(p, phases(s)[targetPhaseIndex + 1])
                    EXCEPT !.isResting = FALSE, !.isRoundRest = FALSE,
                           !.isSwitchingSides = FALSE, !.isFinished = FALSE],
                 "playChange")

restart_leavesTimeAtZero(s) == resetWorkoutState(stopTimer(s))

restart(s) ==
    LET r == resetWorkoutState(stopTimer(s)) IN
    IF hasWorkout(r) THEN initializeExercise(r, exerciseAt(phases(r)[1], 0)) ELSE r

toggleSound(s) == [s EXCEPT !.soundEnabled = ~@]

\* watch(isRunning, ...): runs once after a handler that changed isRunning
watchIsRunning(old, new) ==
    IF new.isRunning = old.isRunning THEN new
    ELSE IF new.isRunning /\ ~new.isFinished THEN startTimer(new)
    ELSE stopTimer(new)

(***************************************************************************)
(* Actions: one per handler.  Run(op, r) installs the state r a handler    *)
(* produced from S with an empty cue log, after the watcher has run.       *)
(***************************************************************************)
S0 == [S EXCEPT !.cues = <<>>]

Install(r) ==
    /\ selectedWorkoutId' = r.selectedWorkoutId
    /\ phaseIndex' = r.phaseIndex
    /\ exerciseIndex' = r.exerciseIndex
    /\ round' = r.round
    /\ timeLeft' = r.timeLeft
    /\ isResting' = r.isResting
    /\ isRoundRest' = r.isRoundRest
    /\ isRunning' = r.isRunning
    /\ isStarted' = r.isStarted
    /\ isFinished' = r.isFinished
    /\ soundEnabled' = r.soundEnabled
    /\ currentSide' = r.currentSide
    /\ isSwitchingSides' = r.isSwitchingSides
    /\ partnerMode' = r.partnerMode
    /\ timerInterval' = r.timerInterval
    /\ intervals' = r.intervals
    /\ cues' = r.cues

Handled(op, r) ==
    /\ Install(watchIsRunning(S, r))
    /\ lastOp' = op
    /\ streak' = IF lastOp # op THEN 1
                 ELSE IF streak < MaxStreak THEN streak + 1 ELSE streak

\* the engine alone: the wake lock never acts on the engine's state, and
\* WakeSpec below follows the two together
Run(op, r) ==
    Handled(op, r) /\ UNCHANGED <<segTicks, segStart, segCues, log>>
      /\ UNCHANGED wakeVars /\ UNCHANGED <<visible, lost>>

\* phase indices a caller may pass: every valid one and one out of range on each side
PhaseArgs == -1 .. 3

\* the selection screen is the only place that calls selectWorkout
\* (WorkoutTimer.vue: v-if="!selectedWorkout")
SelectWorkout ==
    /\ selectedWorkoutId = "none"
    /\ \E id \in WorkoutIds : Run("selectWorkout", selectWorkout(S0, id))
GoToSelection == Run("goToSelection", goToSelection(S0))
GoToOverview == Run("goToOverview", goToOverview(S0))
Start == Run("start", start(S0))
StartFromPhase == \E i \in PhaseArgs : Run("startFromPhase", startFromPhase(S0, i))
GoToPhase == \E i \in PhaseArgs : Run("goToPhase", goToPhase(S0, i))
NextStep == Run("nextStep", nextStep(S0))
PrevStep == Run("prevStep", prevStep(S0))
ToggleRunning == Run("toggleRunning", toggleRunning(S0))
Restart == Run("restart", restart(S0))
ToggleSound == Run("toggleSound", toggleSound(S0))
SetPartnerMode == \E b \in BOOLEAN : Run("setPartnerMode", setPartnerMode(S0, b))
TogglePartnerMode == Run("togglePartnerMode", togglePartnerMode(S0))
\* the callback of a setInterval timer that has not been cleared
Tick == intervals > 0 /\ Run("tick", tick(S0))

Init ==
    /\ selectedWorkoutId = "none"
    /\ phaseIndex = 0 /\ exerciseIndex = 0 /\ round = 1 /\ timeLeft = 0
    /\ isResting = FALSE /\ isRoundRest = FALSE /\ isRunning = FALSE
    /\ isStarted = FALSE /\ isFinished = FALSE /\ soundEnabled = TRUE
    /\ currentSide = "null" /\ isSwitchingSides = FALSE /\ partnerMode = FALSE
    /\ timerInterval = FALSE /\ intervals = 0
    /\ cues = <<>> /\ lastOp = "init" /\ streak = 1
    /\ segTicks = 0 /\ segStart = 0 /\ segCues = <<>> /\ log = <<>>
    /\ wakeLock = 0 /\ isActive = FALSE /\ isSupported = TRUE
    /\ requesting = 0 /\ live = {} /\ releasing = {} /\ visible = TRUE
    /\ lost = FALSE

Next ==
    \/ SelectWorkout \/ GoToSelection \/ GoToOverview
    \/ Start \/ StartFromPhase \/ GoToPhase
    \/ NextStep \/ PrevStep \/ ToggleRunning \/ Restart \/ ToggleSound
    \/ SetPartnerMode \/ TogglePartnerMode \/ Tick

Spec == Init /\ [][Next]_vars

(***************************************************************************)
(* An uninterrupted run: the workout and the partner mode are chosen on   *)
(* the overview screen, start() or startFromPhase(i) begins the run, and   *)
(* from then on only the interval fires.  The run keeps a log of the       *)
(* segments the ticks completed and of how many ticks each took.           *)
(***************************************************************************)
\* the segment shown for s (statusText of WorkoutTimer.vue)
Kind(s) ==
    IF s.isSwitchingSides THEN "switch"
    ELSE IF s.isRoundRest THEN "roundRest"
    ELSE IF s.isResting THEN "rest"
    ELSE "exercise"

Segment(s, ticks) ==
    [phase |-> s.phaseIndex, round |-> s.round, ex |-> s.exerciseIndex,
     kind |-> Kind(s), side |-> s.currentSide, ticks |-> ticks,
     start |-> segStart, countdown |-> segCues]

\* the numbers n of the playCountdown(n) calls among the cues, in order
Countdowns(cs) ==
    LET F[i \in 0 .. Len(cs)] ==
          IF i = 0 THEN <<>>
          ELSE IF cs[i].hook = "playCountdown" THEN Append(F[i - 1], cs[i].n)
          ELSE F[i - 1]
    IN F[Len(cs)]

\* the tick runs nextStep instead of decrementing
Expiring(s) == IsNum(s.timeLeft) /\ s.timeLeft <= 1

RunTick ==
    /\ intervals > 0
    /\ Handled("tick", tick(S0))
    /\ UNCHANGED wakeVars /\ UNCHANGED <<visible, lost>>
    /\ IF Expiring(S)
       THEN /\ log' = Append(log, Segment(S, segTicks + 1)) /\ segTicks' = 0
            /\ segStart' = timeLeft' /\ segCues' = <<>>
       ELSE /\ log' = log /\ segTicks' = segTicks + 1
            /\ segStart' = segStart /\ segCues' = segCues \o Countdowns(cues')

\* start() and startFromPhase(i) enter the first segment of the run
Begin(op, r) ==
    /\ Handled(op, r) /\ segStart' = timeLeft'
    /\ UNCHANGED <<segTicks, segCues, log>>
    /\ UNCHANGED wakeVars /\ UNCHANGED <<visible, lost>>
RunStart == Begin("start", start(S0))
RunStartFromPhase == \E i \in PhaseArgs : Begin("startFromPhase", startFromPhase(S0, i))

RunNext ==
    \/ ~isStarted /\ SelectWorkout
    \/ ~isStarted /\ SetPartnerMode
    \/ ~isStarted /\ RunStart
    \/ ~isStarted /\ RunStartFromPhase
    \/ RunTick

RunSpec == Init /\ [][RunNext]_vars

(***************************************************************************)
(* Properties of the engine.                                               *)
(***************************************************************************)
ModeFlags(s) ==
    (IF s.isResting THEN 1 ELSE 0) + (IF s.isRoundRest THEN 1 ELSE 0)
      + (IF s.isSwitchingSides THEN 1 ELSE 0)

\* C1: in every reachable state at most one of isResting, isRoundRest and
\* isSwitchingSides is true.
AtMostOneMode == ModeFlags(S) <= 1

\* C2: the catalog's durations are all positive integers, and timeLeft is a
\* number >= 0 in every reachable state.
TimeLeftNonNegative == IsNum(timeLeft) /\ timeLeft >= 0

(***************************************************************************)
(* Helpers of the properties below: a whole handler step from a state s    *)
(* (the handler on an empty cue log, then the watcher).                    *)
(***************************************************************************)
Fresh(s) == [s EXCEPT !.cues = <<>>]
AfterNextStep(s) == watchIsRunning(s, nextStep(Fresh(s)))
AfterPrevStep(s) == watchIsRunning(s, prevStep(Fresh(s)))
AfterToggleRunning(s) == watchIsRunning(s, toggleRunning(Fresh(s)))

Position(s) ==
    [phaseIndex |-> s.phaseIndex, exerciseIndex |-> s.exerciseIndex,
     round |-> s.round, currentSide |-> s.currentSide]

\* the fields C4 lists
Progression(s) ==
    [phaseIndex |-> s.phaseIndex, exerciseIndex |-> s.exerciseIndex,
     round |-> s.round, timeLeft |-> s.timeLeft, isResting |-> s.isResting,
     isRoundRest |-> s.isRoundRest, isSwitchingSides |-> s.isSwitchingSides,
     currentSide |-> s.currentSide, isRunning |-> s.isRunning,
     isFinished |-> s.isFinished]

OnLastExercise(s) ==
    /\ hasWorkout(s)
    /\ s.phaseIndex = Len(phases(s)) - 1
    /\ s.exerciseIndex = totalExercises(s) - 1
    /\ s.round = totalRounds(s)

\* the left side of a bilateral exercise, with the right side still to come
LeftSidePending(s) ==
    ~inPartner(s) /\ isBilateralExercise(s) /\ s.currentSide = "left"

\* the last timed part of an exercise: nextStep leaves the exercise
FinalPartOfExercise(s) == ModeFlags(s) = 0 /\ ~LeftSidePending(s)
OnlyResting(s) == s.isResting /\ ModeFlags(s) = 1

Stopped(s) == s.isFinished /\ ~s.isRunning /\ ~s.timerInterval

\* C3: on the last exercise of the last round of the last phase, nextStep past
\* the exercise, and past its trailing rest when it has one, leaves
\* isFinished = TRUE, isRunning = FALSE and no interval handle.
FinishAtEnd ==
    OnLastExercise(S) =>
      /\ OnlyResting(S) => Stopped(AfterNextStep(S))
      /\ FinalPartOfExercise(S) =>
           LET a == AfterNextStep(S) IN
           IF OnlyResting(a) THEN Stopped(AfterNextStep(a)) ELSE Stopped(a)

\* C3 witness: nextStep has just finished the workout from its last exercise
FinishAtEndWitness ==
    /\ lastOp = "nextStep" /\ OnLastExercise(S) /\ Stopped(S)
    /\ cues = <<Cue("playPhaseEnd", 0)>>

\* C4: once isFinished is true, nextStep changes none of phaseIndex,
\* exerciseIndex, round, timeLeft, isResting, isRoundRest, isSwitchingSides,
\* currentSide, isRunning, isFinished.
FinishedNextStepNoOp ==
    isFinished => Progression(AfterNextStep(S)) = Progression(S)

\* C5 as stated: once isFinished is true it stays true under every handler
\* other than restart and goToSelection.
FinishedUntilRestart ==
    [][(isFinished /\ lastOp' \notin {"restart", "goToSelection"}) => isFinished']_vars

ValidPhase(s, i) == hasWorkout(s) /\ i >= 0 /\ i < Len(phases(s))

\* C5 amended: isFinished stays true under every handler other than restart,
\* goToSelection, startFromPhase and goToPhase; startFromPhase(i) with a valid
\* i and goToPhase(i) with a valid i other than the current phase clear it;
\* restart puts the engine at phase 0, exercise 0, round 1, not finished.
FinishedUntilRestartOrJump ==
    [][/\ (isFinished /\ lastOp' \notin {"restart", "goToSelection",
                                         "startFromPhase", "goToPhase"})
            => isFinished'
       /\ isFinished =>
            \A i \in PhaseArgs :
               /\ startFromPhase(S0, i).isFinished = ~ValidPhase(S, i)
               /\ goToPhase(S0, i).isFinished
                    = ~(ValidPhase(S, i) /\ i # phaseIndex)
       /\ lastOp' = "restart" =>
            phaseIndex' = 0 /\ exerciseIndex' = 0 /\ round' = 1 /\ ~isFinished'
      ]_vars

\* C5 witness: a handler other than the four has run on a finished workout,
\* which stayed finished
FinishedWitness ==
    isFinished /\ lastOp = "prevStep" /\ hasWorkout(S)

\* C6: from every non-finished state with a workout, nextStep then prevStep
\* returns phaseIndex, exerciseIndex, round and currentSide.
RoundTrip ==
    (hasWorkout(S) /\ ~isFinished) =>
       Position(AfterPrevStep(AfterNextStep(S))) = Position(S)

\* C7: toggleRunning twice returns isRunning and changes no other field of
\* the progression state.
ToggleTwice ==
    LET twice == AfterToggleRunning(AfterToggleRunning(S)) IN
    /\ [twice EXCEPT !.timerInterval = timerInterval, !.intervals = intervals,
                      !.cues = cues] = S
    /\ AfterToggleRunning(S).isRunning # isRunning

\* C7 witness: toggleRunning has run twice in a row during a running segment
ToggleTwiceWitness ==
    lastOp = "toggleRunning" /\ streak >= 2 /\ isRunning /\ timeLeft > 0

(***************************************************************************)
(* Properties of an uninterrupted run (RunSpec), read off the log.         *)
(***************************************************************************)
\* the completed segments and, while the run is under way, the current one
Seen == IF isStarted /\ ~isFinished THEN Append(log, Segment(S, segTicks)) ELSE log
Completed(i) == i <= Len(log)

PhaseOf(e) == phases(S)[e.phase + 1]
ExerciseOf(e) == exerciseAt(PhaseOf(e), e.ex)
LastExOf(e) == Len(PhaseOf(e).exercises) - 1
PartnerSeg(e) == partnerMode /\ PhaseOf(e).type = "workout"
SameVisit(a, b) == a.phase = b.phase /\ a.round = b.round /\ a.ex = b.ex
OnBody(e) == e.kind \in {"exercise", "switch"}
SideTracked(e) == OnBody(e) /\ ExerciseOf(e).bilateral /\ ~PartnerSeg(e)

\* C8: outside partner mode a bilateral exercise run by ticks is exactly the
\* three consecutive segments left (perSideDuration ticks), switch
\* (switchRestDuration ticks, 5 when not given), right (perSideDuration
\* ticks), which add up to getEffectiveDuration.
BilateralThreeSegments ==
    \A i \in 1 .. Len(Seen) :
       LET e == Seen[i]
           x == ExerciseOf(e)
           sw == IF IsNum(x.switchRestDuration) /\ x.switchRestDuration > 0
                 THEN x.switchRestDuration ELSE 5
       IN SideTracked(e) =>
            \/ /\ e.kind = "exercise" /\ e.side = "left"
               /\ Completed(i) => e.ticks = x.perSideDuration
               /\ i > 1 => ~(OnBody(Seen[i - 1]) /\ SameVisit(Seen[i - 1], e))
               /\ i < Len(Seen) =>
                    Seen[i + 1].kind = "switch" /\ SameVisit(Seen[i + 1], e)
            \/ /\ e.kind = "switch" /\ i > 1
               /\ Seen[i - 1].kind = "exercise" /\ Seen[i - 1].side = "left"
               /\ SameVisit(Seen[i - 1], e)
               /\ Completed(i) => e.ticks = sw
               /\ i < Len(Seen) =>
                    /\ Seen[i + 1].kind = "exercise" /\ Seen[i + 1].side = "right"
                    /\ SameVisit(Seen[i + 1], e)
            \/ /\ e.kind = "exercise" /\ e.side = "right" /\ i > 2
               /\ Seen[i - 1].kind = "switch" /\ SameVisit(Seen[i - 1], e)
               /\ Completed(i) =>
                    /\ e.ticks = x.perSideDuration
                    /\ Seen[i - 2].ticks + Seen[i - 1].ticks + e.ticks
                         = getEffectiveDuration(x)
               /\ i < Len(Seen) =>
                    ~(OnBody(Seen[i + 1]) /\ SameVisit(Seen[i + 1], e))

\* C8 witness: the ticks have completed the right side of a bilateral
\* exercise whose switch rest is not given
BilateralWitness ==
    \E i \in 1 .. Len(log) :
       /\ SideTracked(log[i]) /\ log[i].side = "right" /\ log[i].kind = "exercise"
       /\ ~IsNum(ExerciseOf(log[i]).switchRestDuration)

HasRestSeg(e) ==
    \/ Positive(ExerciseOf(e).restAfter)
    \/ PartnerSeg(e)
         /\ Positive(exerciseAt(PhaseOf(e),
                                (e.ex + 1) % Len(PhaseOf(e).exercises)).restAfter)

\* the last timed part of the last exercise of a round
EndsRound(a) ==
    /\ a.ex = LastExOf(a)
    /\ IF HasRestSeg(a) THEN a.kind = "rest"
       ELSE a.kind = "exercise" /\ ~(SideTracked(a) /\ a.side = "left")

\* C9: in a phase with R rounds and restBetweenRounds > 0 a run enters
\* RoundRest, for restBetweenRounds ticks, exactly after the last exercise
\* (and its rest, when it has one) of each of the rounds 1..R-1, and after
\* round R the phase ends without a round rest.
RoundRestBetweenRounds ==
    \A i \in 1 .. Len(Seen) - 1 :
       LET a == Seen[i]
           b == Seen[i + 1]
           rbr == PhaseOf(a).restBetweenRounds
           R == PhaseOf(a).rounds
       IN /\ b.kind = "roundRest" =>
               /\ EndsRound(a) /\ Positive(rbr) /\ a.round < R
               /\ b.phase = a.phase /\ b.round = a.round + 1
               /\ Completed(i + 1) => b.ticks = rbr
          /\ (EndsRound(a) /\ Positive(rbr) /\ a.round < R) => b.kind = "roundRest"
          /\ (EndsRound(a) /\ a.round = R) =>
               b.kind = "exercise" /\ b.phase = a.phase + 1
          /\ a.kind = "roundRest" =>
               b.kind = "exercise" /\ b.phase = a.phase /\ b.round = a.round
                 /\ b.ex = 0

\* C9 witness: a finished run whose log holds a round rest right after the
\* rest of a round's last exercise
RoundRestWitness ==
    /\ isFinished
    /\ \E i \in 1 .. Len(log) - 1 :
          log[i].kind = "rest" /\ log[i + 1].kind = "roundRest"
            /\ log[i + 1].round = Rounds

(***************************************************************************)
(* Partner mode.                                                           *)
(***************************************************************************)
Visit(s) == <<s.phaseIndex, s.round, s.exerciseIndex>>

\* r is an exercise segment that the handler entered from s
EntersExercise(s, r) ==
    /\ Kind(r) = "exercise" /\ ~r.isFinished
    /\ Kind(s) # "exercise" \/ Visit(r) # Visit(s)

PartnerInitialized(r) ==
    /\ r.timeLeft = Max(getEffectiveDuration(currentExercise(r)),
                        getEffectiveDuration(partnerExercise(r)))
    /\ r.currentSide = "null"
    /\ ~r.isSwitchingSides

\* C10: in partner mode every handler that enters an exercise segment of a
\* workout-type phase (start, startFromPhase, goToPhase, nextStep) leaves
\* timeLeft = max of the two effective durations of the landed pair,
\* currentSide = null and isSwitchingSides = FALSE.
PartnerEntry ==
    (partnerMode /\ hasWorkout(S)) =>
       /\ inPartner(start(S0)) => PartnerInitialized(start(S0))
       /\ \A i \in PhaseArgs :
            /\ (ValidPhase(S, i) /\ inPartner(startFromPhase(S0, i)))
                 => PartnerInitialized(startFromPhase(S0, i))
            /\ (ValidPhase(S, i) /\ i # phaseIndex /\ inPartner(goToPhase(S0, i)))
                 => PartnerInitialized(goToPhase(S0, i))
       /\ (EntersExercise(S, nextStep(S0)) /\ inPartner(nextStep(S0)))
            => PartnerInitialized(nextStep(S0))

\* C11: in partner mode in a workout-type phase Person B's exercise index is
\* the successor of exerciseIndex in the current phase, wrapping to 0 from
\* the last exercise; outside partner mode or outside workout-type phases
\* there is no partner exercise.
PartnerPairing ==
    hasWorkout(S) =>
       IF partnerMode /\ currentPhase(S).type = "workout"
       THEN /\ hasPartnerExercise(S)
            /\ partnerExerciseIndex(S) =
                 (IF exerciseIndex = totalExercises(S) - 1 THEN 0
                  ELSE exerciseIndex + 1)
       ELSE ~hasPartnerExercise(S)

\* C11 witness: a running partner-mode workout phase of several exercises on
\* its last exercise, paired with exercise 0
PartnerPairingWitness ==
    /\ hasWorkout(S) /\ partnerMode /\ isStarted /\ isWorkoutPhase(S)
    /\ totalExercises(S) > 1 /\ exerciseIndex = totalExercises(S) - 1
    /\ partnerExerciseIndex(S) = 0

\* the engine is on the body of an exercise (neither rest nor round rest)
\* of a workout-type phase in partner mode
PartnerExerciseSegment(s) ==
    hasWorkout(s) /\ inPartner(s) /\ ~s.isResting /\ ~s.isRoundRest

PairHasRest(s) ==
    Positive(currentExercise(s).restAfter) \/ Positive(partnerExercise(s).restAfter)

\* C12: in partner mode in a workout-type phase, nextStep at the end of an
\* exercise segment enters Resting on the same exercise with
\* timeLeft = max(restAfter of A, restAfter of B) + 5 when one of the
\* paired exercises has restAfter > 0, and enters no rest when both are 0.
PartnerRest ==
    PartnerExerciseSegment(S) =>
       LET r == nextStep(S0)
           restA == Or(currentExercise(S).restAfter, 0)
           restB == Or(partnerExercise(S).restAfter, 0)
       IN IF PairHasRest(S)
          THEN /\ r.isResting /\ ~r.isRoundRest
               /\ r.timeLeft = (IF restA >= restB THEN restA ELSE restB)
                                 + PARTNER_REST_BONUS
               /\ Visit(r) = Visit(S)
          ELSE ~r.isResting

\* C12 witness: a partner-mode rest that nextStep entered from an exercise
\* whose own restAfter is 0 and whose partner exercise has restAfter > 0
PartnerRestWitness ==
    /\ lastOp = "nextStep" /\ hasWorkout(S) /\ inPartner(S) /\ isResting
    /\ ~Positive(currentExercise(S).restAfter)
    /\ Positive(partnerExercise(S).restAfter)
    /\ timeLeft = partnerExercise(S).restAfter + PARTNER_REST_BONUS

\* C12 witness of the other case is part of the same runs: a pair without
\* rest is left for the next exercise
PartnerNoRestWitness ==
    /\ lastOp = "nextStep" /\ hasWorkout(S) /\ inPartner(S) /\ ~isResting
    /\ exerciseIndex = 1 /\ ~PairHasRest([S EXCEPT !.exerciseIndex = 0])

(***************************************************************************)
(* Partner mode: what the two participants are shown during a run.         *)
(***************************************************************************)
\* what a participant on a bilateral exercise is to be shown after the
\* given number of seconds of the segment
ShownAfter(exercise, seconds) ==
    LET perSide == exercise.perSideDuration
        switchRest == IF Positive(exercise.switchRestDuration)
                      THEN exercise.switchRestDuration ELSE 5
    IN IF seconds < perSide THEN [side |-> "left", isSwitching |-> FALSE]
       ELSE IF seconds < perSide + switchRest
       THEN [side |-> "left", isSwitching |-> TRUE]
       ELSE [side |-> "right", isSwitching |-> FALSE]

\* the run is on the body of an exercise of a workout-type phase in partner mode
InPartnerSegment ==
    isStarted /\ ~isFinished /\ PartnerExerciseSegment(S)

\* C13: in an uninterrupted partner-mode run, during every exercise segment
\* of a workout-type phase the elapsed time sharedMaxDuration - timeLeft is
\* the number of ticks since the segment was entered (0 at entry), and each
\* participant on a bilateral exercise is shown 'left' for perSideDuration
\* seconds, then 'left + switching' for switchRestDuration seconds, then
\* 'right'.
PartnerBilateralDisplay ==
    InPartnerSegment =>
       /\ partnerModeElapsed(S) = segTicks
       /\ currentExercise(S).bilateral =>
            personABilateralState(S) = ShownAfter(currentExercise(S), segTicks)
       /\ partnerExercise(S).bilateral =>
            personBBilateralState(S) = ShownAfter(partnerExercise(S), segTicks)

\* the segments that startFromPhase, a rest or a round rest entered: there
\* the display follows the ticks
PartnerBilateralDisplayFromRest ==
    (InPartnerSegment /\ partnerModeElapsed(S) = segTicks) =>
       /\ currentExercise(S).bilateral =>
            personABilateralState(S) = ShownAfter(currentExercise(S), segTicks)
       /\ partnerExercise(S).bilateral =>
            personBBilateralState(S) = ShownAfter(partnerExercise(S), segTicks)

\* sharedMaxDuration - timeLeft >= the effective duration of the exercise
ElapsedReaches(s, exercise) ==
    LET durationA == getEffectiveDuration(currentExercise(s))
        durationB == getEffectiveDuration(partnerExercise(s))
        sharedMax == IF durationA >= durationB THEN durationA ELSE durationB
    IN IsNum(s.timeLeft) /\ sharedMax - s.timeLeft >= getEffectiveDuration(exercise)

\* the tick does what it does on any segment: it advances when the segment
\* expires, and otherwise only counts one second down
PlainTick(s) ==
    IF IsNum(s.timeLeft) /\ s.timeLeft <= 1 THEN tick(s) = nextStep(s)
    ELSE [tick(s) EXCEPT !.cues = <<>>]
           = [s EXCEPT !.timeLeft = IF IsNum(@) THEN @ - 1 ELSE NaN]

\* nextStep does the same from s and from t, two states that differ in
\* timeLeft only: it assigns the same values, or leaves timeLeft as it was
SameAdvance(s, t) ==
    /\ [nextStep(s) EXCEPT !.timeLeft = 0] = [nextStep(t) EXCEPT !.timeLeft = 0]
    /\ \/ nextStep(s).timeLeft = nextStep(t).timeLeft
       \/ nextStep(s).timeLeft = s.timeLeft /\ nextStep(t).timeLeft = t.timeLeft

\* C14: in a partner-mode exercise segment of a workout-type phase a
\* participant is flagged 'finished early' exactly when
\* sharedMaxDuration - timeLeft >= the effective duration of its own
\* exercise; the participant with the longer exercise is not flagged while
\* timeLeft > 0; and nextStep and the tick do the same whatever the flags
\* are: nextStep does not depend on the time that set them, and the tick
\* only counts down until the shared timer expires.
FinishedEarlyFlags ==
    PartnerExerciseSegment(S) =>
       LET a == currentExercise(S)
           b == partnerExercise(S)
       IN /\ personAFinishedEarly(S) <=> ElapsedReaches(S, a)
          /\ partnerFinishedEarly(S) <=> ElapsedReaches(S, b)
          /\ (IsNum(timeLeft) /\ timeLeft > 0
                /\ getEffectiveDuration(a) >= getEffectiveDuration(b))
               => ~personAFinishedEarly(S)
          /\ (IsNum(timeLeft) /\ timeLeft > 0
                /\ getEffectiveDuration(b) >= getEffectiveDuration(a))
               => ~partnerFinishedEarly(S)
          /\ SameAdvance(S0, [S0 EXCEPT !.timeLeft = partnerModeMaxDuration(S)])
          /\ PlainTick(S0)

\* C14 witness: a tick has brought a partner segment to the second where
\* the participant with the shorter exercise is flagged, the other is not,
\* and the shared timer still runs
FinishedEarlyWitness ==
    /\ lastOp = "tick" /\ PartnerExerciseSegment(S) /\ isRunning
    /\ timeLeft = 1
    /\ personAFinishedEarly(S) /\ ~partnerFinishedEarly(S)
    /\ partnerModeElapsed(S) = getEffectiveDuration(currentExercise(S))

(***************************************************************************)
(* Commands that have nothing to act on.                                   *)
(***************************************************************************)
\* the handler result r, after the watcher, is the state it was called in
\* and no hook was called
NoOp(r) == watchIsRunning(S, r) = S0

OutOfRange(s, i) == i < 0 \/ i >= Len(phases(s))

\* startFromPhase(i) and goToPhase(i) with an index out of range
OutOfRangeNoOp ==
    hasWorkout(S) =>
       \A i \in PhaseArgs :
          OutOfRange(S, i) => NoOp(startFromPhase(S0, i)) /\ NoOp(goToPhase(S0, i))

\* C15: with no workout selected start, startFromPhase, goToPhase, nextStep,
\* prevStep, toggleRunning and restart leave the whole state unchanged; with
\* a workout selected startFromPhase(i) and goToPhase(i) with i < 0 or
\* i >= number of phases leave the whole state unchanged.
InvalidCommandsNoOp ==
    /\ ~hasWorkout(S) =>
          /\ NoOp(start(S0))
          /\ \A i \in PhaseArgs : NoOp(startFromPhase(S0, i)) /\ NoOp(goToPhase(S0, i))
          /\ NoOp(nextStep(S0)) /\ NoOp(prevStep(S0))
          /\ NoOp(toggleRunning(S0))
          /\ NoOp(restart(S0))
    /\ OutOfRangeNoOp

\* the guarded commands: all but toggleRunning and restart
GuardedCommandsNoOp ==
    /\ ~hasWorkout(S) =>
          /\ NoOp(start(S0))
          /\ \A i \in PhaseArgs : NoOp(startFromPhase(S0, i)) /\ NoOp(goToPhase(S0, i))
          /\ NoOp(nextStep(S0)) /\ NoOp(prevStep(S0))
    /\ OutOfRangeNoOp

(***************************************************************************)
(* The tick: countdown cues and expiry.                                    *)
(***************************************************************************)
\* values of timeLeft a tick may find: undefined, NaN and 0 .. MaxTime
MaxTime == 6
TimeArgs == -2 .. MaxTime

\* the countdown numbers due in a segment entered with d seconds when
\* timeLeft has come down to now: 3, 2, 1 as far as timeLeft has passed them
ExpectedCountdown(d, now) ==
    SelectSeq(<<3, 2, 1>>, LAMBDA n : now <= n /\ n < d)

\* one tick from s: playCountdown(n) is called only for n in 1 .. 3 and
\* only by the tick that brings timeLeft down to n
CountdownOnTick(s) ==
    LET r == tick(s)
        heard == Countdowns(r.cues)
    IN IF s.soundEnabled /\ IsNum(s.timeLeft) /\ s.timeLeft - 1 \in 1 .. 3
       THEN heard = <<s.timeLeft - 1>> /\ r.timeLeft = s.timeLeft - 1
       ELSE heard = <<>>

\* C16: the tick calls playCountdown(n) only with n in {1, 2, 3}, with sound
\* enabled, on the tick that brings timeLeft down to n; in an uninterrupted
\* run with sound every segment entered with 4 seconds or more hears 3, 2, 1
\* once each in this order during its last three seconds and is left by the
\* tick after the cue 1.
CountdownCues ==
    /\ \A tl \in TimeArgs : \A snd \in BOOLEAN :
          CountdownOnTick([S0 EXCEPT !.timeLeft = tl, !.soundEnabled = snd])
    /\ \A i \in 1 .. Len(log) :
          log[i].start >= 4 =>
             log[i].countdown = <<3, 2, 1>> /\ log[i].ticks = log[i].start
    /\ (isStarted /\ ~isFinished /\ soundEnabled) =>
          /\ segCues = ExpectedCountdown(segStart, timeLeft)
          /\ segTicks = segStart - timeLeft

\* C16 witness: a tick has just completed a segment of 5 seconds or more in
\* which 3, 2, 1 were heard
CountdownWitness ==
    /\ lastOp = "tick" /\ soundEnabled /\ segTicks = 0 /\ Len(log) > 0
    /\ log[Len(log)].start >= 5 /\ log[Len(log)].countdown = <<3, 2, 1>>

\* which segment a log entry is
SegmentId(e) == <<e.phase, e.round, e.ex, e.kind, e.side>>

\* one tick from a state whose segment expires is one nextStep and nothing
\* else: timeLeft is the duration nextStep assigned, not one less
ExpiryAdvancesOnce(s) == Expiring(s) => tick(s) = nextStep(s)

\* C17: a tick that finds timeLeft <= 1 calls nextStep once and does not
\* decrement timeLeft; in an uninterrupted run a segment entered with
\* D >= 1 seconds is left by the D-th tick after its entry, for the next
\* segment, and until then every tick counts one second.
ExpiryOnTick ==
    /\ \A tl \in TimeArgs : ExpiryAdvancesOnce([S0 EXCEPT !.timeLeft = tl])
    /\ \A i \in 1 .. Len(log) :
          log[i].start >= 1 => log[i].ticks = log[i].start
    /\ \A i \in 1 .. Len(Seen) - 1 : SegmentId(Seen[i]) # SegmentId(Seen[i + 1])
    /\ (isStarted /\ ~isFinished) =>
          timeLeft >= 1 /\ segStart >= 1 /\ segTicks = segStart - timeLeft

\* C17 witness: a tick has just left a segment of 3 seconds or more for the
\* next segment, whose timer shows its full duration
ExpiryWitness ==
    /\ lastOp = "tick" /\ segTicks = 0 /\ Len(log) > 0 /\ ~isFinished
    /\ log[Len(log)].start >= 3 /\ log[Len(log)].ticks = log[Len(log)].start
    /\ timeLeft = segStart /\ timeLeft >= 2

(***************************************************************************)
(* The interval and the isRunning flag.                                    *)
(***************************************************************************)
\* no tick fires while isRunning is false or the workout is finished
NoTickWhileStopped == timerInterval => (isRunning /\ ~isFinished)

\* C18: after every command and its watcher run the interval is active if
\* and only if isRunning && !isFinished; in particular no tick fires while
\* isRunning is false.
TimerIffRunning == timerInterval <=> (isRunning /\ ~isFinished)

(***************************************************************************)
(* The screen wake lock (useWakeLock.js) with the engine.  The watcher of  *)
(* isRunning calls requestWakeLock or releaseWakeLock; each runs up to its *)
(* await inside the handler's step, and the promise of the platform        *)
(* settles in a later step of its own.                                     *)
(***************************************************************************)
MaxPending == 2
MaxSentinels == 2
Sentinels == 1 .. MaxSentinels

\* requestWakeLock up to `await navigator.wakeLock.request('screen')`
RequestWakeLock ==
    IF ~isSupported \/ wakeLock # 0
    THEN UNCHANGED wakeVars
    ELSE /\ requesting < MaxPending
         /\ requesting' = requesting + 1
         /\ UNCHANGED <<wakeLock, isActive, isSupported, live, releasing>>

\* releaseWakeLock up to `await wakeLock.value.release()`
ReleaseWakeLock ==
    IF wakeLock = 0
    THEN UNCHANGED wakeVars
    ELSE /\ releasing' = releasing \cup {wakeLock}
         /\ UNCHANGED <<wakeLock, isActive, isSupported, requesting, live>>

\* the wake-lock half of watch(isRunning) after a handler that produced r
WatchWakeLock(r) ==
    IF r.isRunning = isRunning THEN UNCHANGED wakeVars
    ELSE IF r.isRunning /\ ~r.isFinished THEN RequestWakeLock
    ELSE ReleaseWakeLock

WakeRun(op, r) ==
    /\ Handled(op, r) /\ WatchWakeLock(r)
    /\ UNCHANGED <<segTicks, segStart, segCues, log, visible, lost>>

\* mutant: the listener asks for the lock whenever the page is shown
handleVisibilityChange_always ==
    /\ visible' = ~visible
    /\ IF visible' THEN RequestWakeLock ELSE UNCHANGED wakeVars
    /\ Install(S)
    /\ lastOp' = "visibilitychange"
    /\ streak' = IF lastOp # "visibilitychange" THEN 1
                 ELSE IF streak < MaxStreak THEN streak + 1 ELSE streak
    /\ UNCHANGED <<segTicks, segStart, segCues, log, lost>>

\* the visibilitychange listener (lines 673-678): the page was hidden or shown
handleVisibilityChange ==
    /\ visible' = ~visible
    /\ IF visible' /\ isRunning /\ ~isFinished
       THEN RequestWakeLock
       ELSE UNCHANGED wakeVars
    /\ Install(S)
    /\ lastOp' = "visibilitychange"
    /\ streak' = IF lastOp # "visibilitychange" THEN 1
                 ELSE IF streak < MaxStreak THEN streak + 1 ELSE streak
    /\ UNCHANGED <<segTicks, segStart, segCues, log, lost>>

\* the wake lock follows isRunning and isFinished alone, whatever the workout
\* is made of: the runs with the lock use the shortest workout of the catalog
WakeWorkoutIds == {"stretch"}

WakeSelectWorkout ==
    /\ selectedWorkoutId = "none"
    /\ \E id \in WakeWorkoutIds : WakeRun("selectWorkout", selectWorkout(S0, id))
WakeStart == WakeRun("start", start(S0))
WakeToggleRunning == WakeRun("toggleRunning", toggleRunning(S0))
WakeNextStep == WakeRun("nextStep", nextStep(S0))
WakeRestart == WakeRun("restart", restart(S0))
WakeTick == intervals > 0 /\ WakeRun("tick", tick(S0))

\* the platform grants a pending request: the continuation stores the new
\* sentinel, whatever wakeLock.value holds by then
RequestGranted ==
    /\ requesting > 0
    /\ \E id \in Sentinels \ (live \cup releasing) :
          /\ live' = live \cup {id}
          /\ wakeLock' = id
    /\ isActive' = TRUE
    /\ requesting' = requesting - 1
    /\ lost' = FALSE
    /\ UNCHANGED <<isSupported, releasing>>

\* the platform rejects a pending request: the catch branch
RequestRejected ==
    /\ requesting > 0
    /\ requesting' = requesting - 1
    /\ isActive' = FALSE
    /\ UNCHANGED <<wakeLock, isSupported, live, releasing, lost>>

\* a pending release() settles: the sentinel's 'release' listener and the
\* continuation both clear wakeLock.value and isActive
ReleaseDone ==
    /\ \E id \in releasing :
          /\ releasing' = releasing \ {id}
          /\ live' = live \ {id}
    /\ wakeLock' = 0
    /\ isActive' = FALSE
    /\ UNCHANGED <<isSupported, requesting, lost>>

\* the platform takes a sentinel back (the page was hidden, the battery is
\* low): its 'release' listener (useWakeLock.js:23-26) clears wakeLock.value
\* and isActive
SystemRelease ==
    /\ \E id \in live \ releasing : live' = live \ {id}
    /\ wakeLock' = 0
    /\ isActive' = FALSE
    /\ lost' = TRUE
    /\ UNCHANGED <<isSupported, requesting, releasing>>

\* a step of the platform leaves the engine alone
Settled(A) ==
    /\ A
    /\ UNCHANGED <<selectedWorkoutId, phaseIndex, exerciseIndex, round, timeLeft,
                   isResting, isRoundRest, isRunning, isStarted, isFinished,
                   soundEnabled, currentSide, isSwitchingSides, partnerMode,
                   timerInterval, intervals, cues, lastOp, streak, segTicks,
                   segStart, segCues, log, visible>>

WakeInit ==
    /\ selectedWorkoutId = "none"
    /\ phaseIndex = 0 /\ exerciseIndex = 0 /\ round = 1 /\ timeLeft = 0
    /\ isResting = FALSE /\ isRoundRest = FALSE /\ isRunning = FALSE
    /\ isStarted = FALSE /\ isFinished = FALSE /\ soundEnabled = TRUE
    /\ currentSide = "null" /\ isSwitchingSides = FALSE /\ partnerMode = FALSE
    /\ timerInterval = FALSE /\ intervals = 0
    /\ cues = <<>> /\ lastOp = "init" /\ streak = 1
    /\ segTicks = 0 /\ segStart = 0 /\ segCues = <<>> /\ log = <<>>
    /\ wakeLock = 0 /\ isActive = FALSE /\ isSupported \in BOOLEAN
    /\ requesting = 0 /\ live = {} /\ releasing = {} /\ visible = TRUE
    /\ lost = FALSE

WakeNext ==
    \/ WakeSelectWorkout \/ WakeStart \/ WakeToggleRunning \/ WakeNextStep
    \/ WakeRestart \/ WakeTick \/ handleVisibilityChange
    \/ Settled(RequestGranted) \/ Settled(RequestRejected) \/ Settled(ReleaseDone)
    \/ Settled(SystemRelease)

WakeSpec == WakeInit /\ [][WakeNext]_vars

\* no promise of the platform is pending
Quiet == requesting = 0 /\ releasing = {}

\* C19: under every interleaving of commands with the settling of wake-lock
\* requests and releases, once no request or release is pending the screen
\* wake lock is held only while isRunning && !isFinished.
WakeLockOnlyWhileRunning ==
    (Quiet /\ live # {}) => (isRunning /\ ~isFinished)

\* the race on a started workout: paused, nothing pending, lock held
HeldWhilePaused ==
    /\ hasWorkout(S) /\ isStarted /\ ~isRunning /\ ~isFinished
    /\ Quiet /\ live # {}

(***************************************************************************)
(* restart.                                                                *)
(***************************************************************************)
\* C20: after restart() with a workout selected, from any reachable state,
\* phaseIndex = 0, exerciseIndex = 0, round = 1, isResting = isRoundRest =
\* isSwitchingSides = FALSE, isRunning = FALSE, isFinished = FALSE, the
\* interval is stopped, timeLeft and currentSide are those of the first
\* exercise of phase 0 (perSideDuration and 'left' when it is bilateral,
\* duration and null otherwise); partnerMode, soundEnabled and the selected
\* workout are unchanged.
RestartResets ==
    hasWorkout(S) =>
       LET r == watchIsRunning(S, restart(S0))
           first == workoutsList[selectedWorkoutId][1].exercises[1]
       IN /\ r.phaseIndex = 0 /\ r.exerciseIndex = 0 /\ r.round = 1
          /\ ~r.isResting /\ ~r.isRoundRest /\ ~r.isSwitchingSides
          /\ ~r.isRunning /\ ~r.isFinished /\ ~r.timerInterval
          /\ r.timeLeft = (IF first.bilateral THEN first.perSideDuration
                           ELSE first.duration)
          /\ r.currentSide = (IF first.bilateral THEN "left" ELSE "null")
          /\ r.partnerMode = partnerMode /\ r.soundEnabled = soundEnabled
          /\ r.selectedWorkoutId = selectedWorkoutId

\* C20 witness: restart() has just run on a workout whose first exercise is
\* bilateral, with partner mode on and sound off
RestartWitness ==
    /\ lastOp = "restart" /\ hasWorkout(S) /\ currentExercise(S).bilateral
    /\ partnerMode /\ ~soundEnabled
    /\ phaseIndex = 0 /\ round = 1 /\ currentSide = "left"
    /\ timeLeft = currentExercise(S).perSideDuration /\ ~timerInterval

(***************************************************************************)
(* The order of an uninterrupted run.                                      *)
(***************************************************************************)
\* the exercise segments among the segments of the run, in order
ExerciseSegs == SelectSeq(Seen, LAMBDA e : e.kind = "exercise")

\* b is the exercise after a in the enumeration phase, round, exercise
Succeeds(a, b) ==
    IF a.ex < LastExOf(a)
    THEN b.phase = a.phase /\ b.round = a.round /\ b.ex = a.ex + 1
    ELSE IF a.round < Or(PhaseOf(a).rounds, 1)
    THEN b.phase = a.phase /\ b.round = a.round + 1 /\ b.ex = 0
    ELSE b.phase = a.phase + 1 /\ b.round = 1 /\ b.ex = 0

\* a is the last exercise of the workout
LastOfWorkout(a) ==
    /\ a.phase = Len(phases(S)) - 1
    /\ a.round = Or(PhaseOf(a).rounds, 1)
    /\ a.ex = LastExOf(a)

\* C21: in a run driven only by ticks the exercise segments are visited in
\* the order phase 0..P-1, round 1..rounds, exercise 0..n-1: start() begins
\* at phase 0, round 1, exercise 0, every exercise segment is followed by
\* the right side of the same exercise (after a left side outside partner
\* mode) or by the next exercise of the enumeration, and the run finishes
\* after the last one.
AutoProgressionOrder ==
    LET X == ExerciseSegs IN
    /\ (lastOp = "start" /\ isStarted) =>
          Seen = <<Segment(S, 0)>> /\ X = Seen
            /\ phaseIndex = 0 /\ round = 1 /\ exerciseIndex = 0
    /\ Len(Seen) > 0 => Seen[1].kind = "exercise" /\ Seen[1].round = 1 /\ Seen[1].ex = 0
    /\ \A i \in 1 .. Len(X) - 1 :
          IF SideTracked(X[i]) /\ X[i].side = "left"
          THEN SameVisit(X[i], X[i + 1]) /\ X[i + 1].side = "right"
          ELSE Succeeds(X[i], X[i + 1])
    /\ (isFinished /\ Len(X) > 0) => LastOfWorkout(X[Len(X)])

\* C21 witness: a run of the workout 'full' that began at phase 0 has
\* finished
AutoProgressionWitness ==
    /\ isFinished /\ selectedWorkoutId = "full" /\ Len(log) > 0
    /\ log[1].phase = 0 /\ LastOfWorkout(log[Len(log)])
    /\ Len(ExerciseSegs) >= 2 + 3 * Rounds + 1

(***************************************************************************)
(* Termination of an uninterrupted run: setInterval keeps firing while    *)
(* its handle is stored, so the tick is weakly fair.                       *)
(***************************************************************************)
LiveSpec == Init /\ [][RunNext]_vars /\ WF_vars(RunTick)

\* C22: once start() (or startFromPhase) has started a workout, whose
\* durations are all positive, and only the tick fires from then on, the
\* engine eventually reaches isFinished = TRUE, in partner mode as well as
\* in normal mode.
EventuallyFinished == isStarted ~> isFinished

\* C22 witness: a partner-mode run that start() began at phase 0 has been
\* finished by a tick
EventuallyFinishedWitness ==
    /\ isFinished /\ ~isRunning /\ lastOp = "tick" /\ partnerMode
    /\ Len(log) > 0 /\ log[1].phase = 0 /\ ~timerInterval

(***************************************************************************)
(* prevStep.                                                               *)
(***************************************************************************)
\* a round rest from which prevStep takes its isRoundRest branch
InRoundRest(s) ==
    /\ hasWorkout(s) /\ s.isRoundRest /\ ~s.isSwitchingSides
    /\ ~(isBilateralExercise(s) /\ s.currentSide = "right")

\* what prevStep does to the position from a round rest, the round apart
LandsOnLastExercise(s, r) ==
    /\ ~r.isRoundRest
    /\ r.phaseIndex = s.phaseIndex
    /\ r.exerciseIndex = totalExercises(s) - 1
    /\ currentExercise(r).bilateral => r.currentSide = "left"

\* C23: prevStep from RoundRest clears isRoundRest and lands on the last
\* exercise of the previous round: exerciseIndex = totalExercises - 1,
\* round = the round that was running before the round rest was entered
\* (nextStep had incremented it on entering), side 'left' if the exercise
\* is bilateral.
RetreatFromRoundRest ==
    InRoundRest(S) =>
       LET r == prevStep(S0)
       IN LandsOnLastExercise(S, r) /\ r.round = round - 1

\* what the code does: the same landing, in the round the round rest
\* announced
RetreatFromRoundRestSameRound ==
    InRoundRest(S) =>
       LET r == prevStep(S0)
       IN LandsOnLastExercise(S, r) /\ r.round = round

(***************************************************************************)
(* nextStep out of a rest: where it lands and which cue it plays.          *)
(***************************************************************************)
\* the rest after the last exercise of a round that has a successor, in a
\* phase without restBetweenRounds, with sound
RestBeforeNewRound(s) ==
    /\ hasWorkout(s) /\ OnlyResting(s) /\ s.soundEnabled
    /\ s.exerciseIndex = totalExercises(s) - 1
    /\ s.round < totalRounds(s)
    /\ ~Positive(currentPhase(s).restBetweenRounds)

StartsNewRound(s, r) ==
    /\ r.round = s.round + 1 /\ r.exerciseIndex = 0 /\ r.phaseIndex = s.phaseIndex
    /\ ~r.isResting /\ ~r.isRoundRest

\* C24: when nextStep leaves Resting after the last exercise of a round
\* with round < totalRounds and the phase defines no restBetweenRounds, it
\* increments round, resets to exercise 0 and plays the segment-change cue
\* (playChange).
NewRoundPlaysChange ==
    RestBeforeNewRound(S) =>
       LET r == nextStep(S0)
       IN StartsNewRound(S, r) /\ r.cues = <<Cue("playChange", 0)>>

\* what the code does: the same move with the segment-start cue
NewRoundPlaysStart ==
    RestBeforeNewRound(S) =>
       LET r == nextStep(S0)
       IN StartsNewRound(S, r) /\ r.cues = <<Cue("playStart", 0)>>

\* the duration an exercise segment on exercise i of the current phase
\* begins with: in partner mode in a workout-type phase the longer of the
\* pair's effective durations, otherwise the first side or the duration
InitialDuration(s, i) ==
    LET n == totalExercises(s)
        a == exerciseAt(currentPhase(s), i)
        b == exerciseAt(currentPhase(s), (i + 1) % n)
    IN IF s.partnerMode /\ currentPhase(s).type = "workout"
       THEN (IF getEffectiveDuration(a) >= getEffectiveDuration(b)
             THEN getEffectiveDuration(a) ELSE getEffectiveDuration(b))
       ELSE IF a.bilateral THEN a.perSideDuration ELSE a.duration

OnlyRoundRest(s) == s.isRoundRest /\ ModeFlags(s) = 1

\* r is on the body of exercise i of the phase and round of s, after
\* exactly the segment-start cue
StartsExercise(s, r, i) ==
    /\ r.cues = <<Cue("playStart", 0)>>
    /\ ~r.isResting /\ ~r.isRoundRest /\ ~r.isSwitchingSides
    /\ r.phaseIndex = s.phaseIndex /\ r.round = s.round /\ r.exerciseIndex = i
    /\ r.timeLeft = InitialDuration(s, i)

\* C25: with sound enabled, nextStep from RoundRest lands on exercise 0 of
\* the current phase, and nextStep from Resting before a further exercise
\* of the round lands on that exercise; each plays exactly the
\* segment-start cue (playStart), clears the rest flag it left and sets
\* timeLeft to the landed exercise's initial duration.
RestEndsWithStart ==
    (hasWorkout(S) /\ soundEnabled) =>
       /\ OnlyRoundRest(S) => StartsExercise(S, nextStep(S0), 0)
       /\ (OnlyResting(S) /\ exerciseIndex + 1 < totalExercises(S))
            => StartsExercise(S, nextStep(S0), exerciseIndex + 1)

\* C25 witness: nextStep has left a partner-mode rest for the next exercise
\* of the round, whose partner's exercise is the longer one
RestEndsWithStartWitness ==
    /\ lastOp = "nextStep" /\ hasWorkout(S) /\ inPartner(S) /\ soundEnabled
    /\ cues = <<Cue("playStart", 0)>> /\ ModeFlags(S) = 0 /\ exerciseIndex > 0
    /\ timeLeft = getEffectiveDuration(partnerExercise(S))
    /\ timeLeft > getEffectiveDuration(currentExercise(S))

\* C25 witness of the other case: nextStep has left a round rest
RoundRestEndsWithStartWitness ==
    /\ lastOp = "nextStep" /\ hasWorkout(S) /\ soundEnabled /\ round > 1
    /\ cues = <<Cue("playStart", 0)>> /\ ModeFlags(S) = 0 /\ exerciseIndex = 0
    /\ Positive(currentPhase(S).restBetweenRounds)
    /\ timeLeft = InitialDuration(S, 0)

\* C26: prevStep calls no audio hook, from any state, with sound enabled as
\* well as without.
RetreatIsSilent == prevStep(S0).cues = <<>>

\* C26 witness: with sound on, prevStep has just moved back onto the right
\* side of a bilateral exercise, and no hook was called
RetreatIsSilentWitness ==
    /\ lastOp = "prevStep" /\ hasWorkout(S) /\ soundEnabled /\ isStarted
    /\ currentSide = "right" /\ ModeFlags(S) = 0 /\ cues = <<>>

\* the first exercise of the workout, on its body and not on a right side
AtVeryStart(s) ==
    /\ hasWorkout(s)
    /\ s.phaseIndex = 0 /\ s.exerciseIndex = 0 /\ s.round = 1
    /\ ~s.isResting /\ ~s.isRoundRest /\ ~s.isSwitchingSides
    /\ ~(isBilateralExercise(s) /\ s.currentSide = "right")

\* C27: at phaseIndex = 0, exerciseIndex = 0, round = 1, on the body of the
\* exercise (not resting, not round-resting, not switching sides, not on
\* the right side of a bilateral exercise), prevStep is a no-op: every
\* field, timeLeft included, is unchanged and no hook is called.
RetreatAtStartNoOp == AtVeryStart(S) => NoOp(prevStep(S0))

\* C27 witness: prevStep has run at the very start of a workout whose timer
\* had already counted a second, and the timer still shows that value
RetreatAtStartWitness ==
    /\ lastOp = "prevStep" /\ AtVeryStart(S) /\ isStarted /\ ~isFinished
    /\ ~isBilateralExercise(S)
    /\ timeLeft = currentExercise(S).duration - 1 /\ timeLeft > 0

\* what prevStep is to do from the rest after the current exercise
BackOnExercise(s, r) ==
    /\ ~r.isResting
    /\ r.phaseIndex = s.phaseIndex /\ r.round = s.round
    /\ r.exerciseIndex = s.exerciseIndex
    /\ IF currentExercise(s).bilateral
       THEN r.currentSide = "right"
              /\ r.timeLeft = currentExercise(s).perSideDuration
       ELSE r.currentSide = s.currentSide /\ r.timeLeft = currentExercise(s).duration

RetreatFromRestRightWitness ==
    /\ lastOp = "prevStep" /\ ~partnerMode /\ hasWorkout(S) /\ ModeFlags(S) = 0
    /\ isBilateralExercise(S) /\ Positive(currentExercise(S).restAfter)
    /\ currentSide = "right" /\ timeLeft = currentExercise(S).perSideDuration

(***************************************************************************)
(* The end of a phase.                                                     *)
(***************************************************************************)
\* nextStep from s completes the last exercise of the last round of a
\* phase that is not the last: s is on the final part of that exercise,
\* which has no rest, or on the rest after it
CompletesPhase(s) ==
    /\ hasWorkout(s)
    /\ s.phaseIndex < Len(phases(s)) - 1
    /\ s.exerciseIndex = totalExercises(s) - 1
    /\ s.round = totalRounds(s)
    /\ \/ OnlyResting(s)
       \/ FinalPartOfExercise(s)
            /\ ~Positive(currentExercise(s).restAfter)
            /\ ~(inPartner(s) /\ Positive(partnerExercise(s).restAfter))

\* C29: when nextStep completes the last exercise of the last round of a
\* phase that is not the last one, it plays the phase-end cue
\* (playPhaseEnd, with sound) and leaves phaseIndex incremented by one,
\* exerciseIndex = 0, round = 1, isSwitchingSides = isResting = isRoundRest
\* = FALSE, and timeLeft and side as the new phase's first exercise
\* initializes them (perSideDuration and 'left' when bilateral, duration
\* and none otherwise).
PhaseEnd ==
    CompletesPhase(S) =>
       LET r == nextStep(S0)
           first == phases(S)[phaseIndex + 2].exercises[1]
       IN /\ r.cues = (IF soundEnabled THEN <<Cue("playPhaseEnd", 0)>> ELSE <<>>)
          /\ r.phaseIndex = phaseIndex + 1 /\ r.exerciseIndex = 0 /\ r.round = 1
          /\ ~r.isSwitchingSides /\ ~r.isResting /\ ~r.isRoundRest
          /\ r.timeLeft = (IF first.bilateral THEN first.perSideDuration
                           ELSE first.duration)
          /\ r.currentSide = (IF first.bilateral THEN "left" ELSE "null")
          /\ r.isFinished = isFinished /\ r.isRunning = isRunning

\* C29 witness: nextStep has just ended a phase of several rounds with the
\* phase-end cue and stands on the left side of the next phase's first
\* exercise
PhaseEndWitness ==
    /\ lastOp = "nextStep" /\ hasWorkout(S) /\ cues = <<Cue("playPhaseEnd", 0)>>
    /\ ~isFinished /\ phaseIndex > 0 /\ exerciseIndex = 0 /\ round = 1
    /\ isBilateralExercise(S) /\ currentSide = "left" /\ ModeFlags(S) = 0
    /\ timeLeft = currentExercise(S).perSideDuration

(***************************************************************************)
(* Jumps to a phase.                                                       *)
(***************************************************************************)
\* r stands at the beginning of phase i with no rest or switch flag set
AtPhaseStart(r, i) ==
    /\ r.phaseIndex = i /\ r.exerciseIndex = 0 /\ r.round = 1
    /\ ~r.isResting /\ ~r.isRoundRest /\ ~r.isSwitchingSides

\* C30: for a valid index i, startFromPhase(i) from any state leaves
\* phaseIndex = i, exerciseIndex = 0, round = 1, the rest and switch flags
\* false, isStarted = isRunning = TRUE and isFinished = FALSE; goToPhase(i)
\* with i different from the current phase does the same to position and
\* flags and clears isFinished but leaves isRunning and isStarted as they
\* are; goToPhase(i) with i the current phase changes nothing.
PhaseJumps ==
    hasWorkout(S) =>
       \A i \in PhaseArgs :
          ValidPhase(S, i) =>
             LET a == watchIsRunning(S, startFromPhase(S0, i))
                 b == watchIsRunning(S, goToPhase(S0, i))
             IN /\ AtPhaseStart(a, i)
                /\ a.isStarted /\ a.isRunning /\ ~a.isFinished
                /\ IF i # phaseIndex
                   THEN /\ AtPhaseStart(b, i) /\ ~b.isFinished
                        /\ b.isRunning = isRunning /\ b.isStarted = isStarted
                   ELSE b = S0

\* C30 witness: goToPhase(i) has just jumped, on a paused workout, to a later
\* phase, and the workout is still paused
PhaseJumpWitness ==
    /\ lastOp = "goToPhase" /\ hasWorkout(S) /\ cues = <<Cue("playChange", 0)>>
    /\ isStarted /\ ~isRunning /\ ~isFinished /\ ~timerInterval
    /\ AtPhaseStart(S, phaseIndex) /\ phaseIndex > 0

\* C30 witness for startFromPhase: it has just run on a finished workout
StartFromPhaseWitness ==
    /\ lastOp = "startFromPhase" /\ hasWorkout(S) /\ cues = <<Cue("playStart", 0)>>
    /\ isStarted /\ isRunning /\ ~isFinished /\ AtPhaseStart(S, phaseIndex)
    /\ phaseIndex = Len(phases(S)) - 1 /\ phaseIndex > 0

(***************************************************************************)
(* The tick timer.  Each setInterval timer that has not been cleared fires *)
(* its callback once per second, so the number of decrements of timeLeft   *)
(* per second is the number of such timers.                                *)
(***************************************************************************)
\* C31: starting and stopping the tick are idempotent: at most one interval
\* timer exists at any time (exactly one while a handle is stored, none
\* otherwise), startTimer with a handle stored and stopTimer without one
\* change nothing, so timeLeft is decremented at most once per second under
\* every sequence of commands.
OneTimer ==
    /\ intervals = (IF timerInterval THEN 1 ELSE 0)
    /\ timerInterval => startTimer(S) = S
    /\ ~timerInterval => stopTimer(S) = S
    /\ startTimer(startTimer(S)) = startTimer(S)
    /\ stopTimer(stopTimer(S)) = stopTimer(S)

\* C31 witness: the run was paused and resumed, which cleared the timer and
\* created it again, and one timer is ticking
OneTimerWitness ==
    /\ lastOp = "toggleRunning" /\ streak = 2 /\ hasWorkout(S) /\ isStarted
    /\ isRunning /\ timerInterval /\ intervals = 1

\* C31 witness: restart() on a paused workout called stopTimer with no
\* timer to stop
StopTwiceWitness ==
    /\ lastOp = "restart" /\ streak = 2 /\ hasWorkout(S) /\ intervals = 0

(***************************************************************************)
(* nextInfo (lines 136-165).  The catalog gives every exercise a name of   *)
(* its own, so the name nextInfo shows stands for the exercise's position  *)
(* (phase, ex) in the workout; phase = -1 when the name is not that of an  *)
(* exercise.                                                               *)
(***************************************************************************)
noInfo == [label |-> "null", phase |-> -1, ex |-> -1]
Info(label, phase, ex) == [label |-> label, phase |-> phase, ex |-> ex]

\* mutant: the peek forgets the rounds still to run (line 155)
nextInfo_ignoresRounds(s) ==
    IF ~hasWorkout(s) THEN noInfo
    ELSE IF s.isSwitchingSides THEN Info("Siguiente lado", -1, -1)
    ELSE IF ~s.isResting /\ ~s.isRoundRest THEN noInfo
    ELSE IF s.isRoundRest THEN Info("Siguiente ronda", s.phaseIndex, 0)
    ELSE IF s.exerciseIndex + 1 < totalExercises(s)
    THEN Info("Siguiente", s.phaseIndex, s.exerciseIndex + 1)
    ELSE IF s.phaseIndex + 1 < Len(phases(s))
    THEN Info("Siguiente fase", s.phaseIndex + 1, 0)
    ELSE noInfo

nextInfo(s) ==
    IF ~hasWorkout(s) THEN noInfo
    ELSE IF s.isSwitchingSides THEN Info("Siguiente lado", -1, -1)
    ELSE IF ~s.isResting /\ ~s.isRoundRest THEN noInfo
    ELSE IF s.isRoundRest THEN Info("Siguiente ronda", s.phaseIndex, 0)
    ELSE IF s.exerciseIndex + 1 < totalExercises(s)
    THEN Info("Siguiente", s.phaseIndex, s.exerciseIndex + 1)
    ELSE IF s.round < totalRounds(s)
    THEN Info("Siguiente ronda", s.phaseIndex, 0)
    ELSE IF s.phaseIndex + 1 < Len(phases(s))
    THEN Info("Siguiente fase", s.phaseIndex + 1, 0)
    ELSE noInfo

\* nextStep from s, and once more when it entered a round rest
DriveToExercise(s) ==
    LET r == nextStep(s) IN
    IF r.isRoundRest /\ ~s.isRoundRest THEN nextStep(r) ELSE r

\* the rest after the last exercise of the last round of the last phase
FinalRest(s) == Kind(s) = "rest" /\ OnLastExercise(s)

\* C32: nextInfo agrees with nextStep: whenever the engine is Resting or
\* RoundRest and nextInfo names an exercise, nextStep (twice when a round
\* rest comes in between) lands on an exercise segment of that exercise;
\* nextInfo is null in an exercise segment and in the rest after the very
\* last exercise of the workout.
NextInfoAgrees ==
    hasWorkout(S) =>
       LET info == nextInfo(S)
           r == DriveToExercise(S0)
       IN /\ ((isResting \/ isRoundRest) /\ info.phase # -1)
                => /\ Kind(r) = "exercise"
                   /\ r.phaseIndex = info.phase /\ r.exerciseIndex = info.ex
          /\ ModeFlags(S) = 0 => info = noInfo
          /\ FinalRest(S) => info = noInfo

\* C32 witness: a rest after the last exercise of a round that is not the
\* last, in a phase with a round rest: nextInfo names the first exercise and
\* nextStep reaches it through the round rest
NextInfoWitness ==
    /\ hasWorkout(S) /\ isStarted /\ Kind(S) = "rest" /\ ModeFlags(S) = 1
    /\ exerciseIndex = totalExercises(S) - 1 /\ moreRounds(S)
    /\ nextInfo(S) = Info("Siguiente ronda", phaseIndex, 0)
    /\ nextStep(S0).isRoundRest
    /\ Kind(DriveToExercise(S0)) = "exercise"

\* C32 witness: the rest after the very last exercise, where nextInfo is null
NextInfoFinalRestWitness ==
    hasWorkout(S) /\ isStarted /\ FinalRest(S) /\ nextInfo(S) = noInfo

(***************************************************************************)
(* Visibility changes and the wake lock.                                   *)
(***************************************************************************)
\* the page is shown while the workout runs
ShownWhileRunning == visible' /\ ~visible /\ isRunning /\ ~isFinished

\* C33: when the platform has taken the wake lock back ('release' event of
\* the sentinel) and the page then becomes visible with isRunning and not
\* isFinished, a new wake-lock request is issued; a request that succeeds
\* leaves the lock held (stored in wakeLock.value, isActive true); a
\* visibility change while paused or finished, or one that hides the page,
\* issues no request.
ReacquireOnVisible ==
    [][/\ (ShownWhileRunning /\ lost) => requesting' = requesting + 1
       /\ (visible' # visible /\ ~ShownWhileRunning) => requesting' = requesting
       /\ (requesting' < requesting /\ live' # live)
             => (wakeLock' \in live' /\ isActive' /\ ~lost')]_vars

\* C33 witness: the page has just been shown again during a run after the
\* platform took the lock back, and the request this issued is the only one
\* pending
ReacquireWitness ==
    /\ lastOp = "visibilitychange" /\ visible /\ lost
    /\ hasWorkout(S) /\ isRunning /\ ~isFinished
    /\ requesting = 1 /\ live = {} /\ wakeLock = 0

\* C33 witness: the page was shown while the workout was paused, and nothing
\* was requested
ShownWhilePausedWitness ==
    /\ lastOp = "visibilitychange" /\ streak = 2 /\ visible
    /\ hasWorkout(S) /\ isStarted /\ ~isRunning /\ requesting = 0 /\ live = {}

(***************************************************************************)
(* start().                                                                *)
(***************************************************************************)
\* C34: immediately after start() with a workout selected, from every state
\* in which the overview offers it (isStarted false, which goToOverview()
\* brings about mid-workout too), phaseIndex = 0, exerciseIndex = 0,
\* round = 1, isResting, isRoundRest and isSwitchingSides are all false, and
\* timeLeft is the initial duration of the exercise at the current position.
StartResets ==
    (hasWorkout(S) /\ ~isStarted) =>
       LET r == watchIsRunning(S, start(S0)) IN
       /\ r.phaseIndex = 0 /\ r.exerciseIndex = 0 /\ r.round = 1
       /\ ~r.isResting /\ ~r.isRoundRest /\ ~r.isSwitchingSides
       /\ r.timeLeft = InitialDuration(r, r.exerciseIndex)

\* what start() does: the position and the flags stay as they were, and
\* timeLeft is the initial duration of exercise 0 of phase 0
StartKeepsPosition ==
    hasWorkout(S) =>
       LET r == watchIsRunning(S, start(S0))
           first == [S EXCEPT !.phaseIndex = 0]
       IN /\ r.phaseIndex = phaseIndex /\ r.exerciseIndex = exerciseIndex
          /\ r.round = round
          /\ ~partnerMode => r.isSwitchingSides = isSwitchingSides
          /\ r.isResting = isResting /\ r.isRoundRest = isRoundRest
          /\ r.timeLeft = InitialDuration(first, 0)
          /\ r.isStarted /\ r.isRunning

\* start() pressed on the overview after goToOverview() left a workout that
\* had reached its second exercise
StartMidWorkout ==
    /\ lastOp = "start" /\ selectedWorkoutId = "full" /\ phaseIndex = 0
    /\ exerciseIndex = 1 /\ currentSide = "null" /\ timeLeft = Dur
    /\ isStarted /\ isRunning

(***************************************************************************)
(* The total shown on the selection screen (WorkoutTimer.vue lines 83-92). *)
(***************************************************************************)
\* exercises.reduce((sum, ex) => sum + getEffectiveDuration(ex) + (ex.restAfter || 0), 0)
exerciseTime(phase) ==
    LET F[i \in 0 .. Len(phase.exercises)] ==
          IF i = 0 THEN 0
          ELSE F[i - 1] + getEffectiveDuration(phase.exercises[i])
                 + Or(phase.exercises[i].restAfter, 0)
    IN F[Len(phase.exercises)]

\* mutant: a round rest is counted after the last round too
getWorkoutDuration_restEveryRound(workout) ==
    LET F[i \in 0 .. Len(workout)] ==
          IF i = 0 THEN 0
          ELSE LET phase == workout[i]
                   rounds == Or(phase.rounds, 1)
                   roundRestTime == Or(phase.restBetweenRounds, 0) * rounds
               IN F[i - 1] + exerciseTime(phase) * rounds + roundRestTime
    IN F[Len(workout)]

getWorkoutDuration(workout) ==
    LET F[i \in 0 .. Len(workout)] ==
          IF i = 0 THEN 0
          ELSE LET phase == workout[i]
                   rounds == Or(phase.rounds, 1)
                   roundRestTime == Or(phase.restBetweenRounds, 0) * (rounds - 1)
               IN F[i - 1] + exerciseTime(phase) * rounds + roundRestTime
    IN F[Len(workout)]

\* the ticks of the segments logged so far
TicksLogged ==
    LET F[i \in 0 .. Len(log)] == IF i = 0 THEN 0 ELSE F[i - 1] + log[i].ticks
    IN F[Len(log)]

\* the run began at the first exercise of phase 0, as start() on a fresh
\* engine begins it
BegunAtStart == Len(log) > 0 /\ log[1].phase = 0

\* C35: without partner mode, the number of ticks from start() to
\* isFinished = TRUE in an uninterrupted run equals getWorkoutDuration of
\* the workout: the sum over phases of rounds * sum over exercises of
\* (effective duration + restAfter) + restBetweenRounds * (rounds - 1).
TotalDuration ==
    (hasWorkout(S) /\ isFinished /\ ~partnerMode /\ BegunAtStart)
       => TicksLogged = getWorkoutDuration(phases(S))

\* C35 witness: a run of the three-phase workout begun by start() has
\* finished, after rounds, round rests, rests and a bilateral exercise
TotalDurationWitness ==
    /\ selectedWorkoutId = "full" /\ isFinished /\ ~partnerMode /\ BegunAtStart
    /\ TicksLogged = getWorkoutDuration(phases(S))
    /\ \E i \in 1 .. Len(log) : log[i].kind = "roundRest"
    /\ \E i \in 1 .. Len(log) : log[i].kind = "switch"

(***************************************************************************)
(* The position stays inside the workout.                                  *)
(***************************************************************************)
\* C36: with a workout selected, in every reachable state
\* 0 <= phaseIndex < number of phases, 0 <= exerciseIndex < number of
\* exercises of the current phase, and 1 <= round <= rounds of the current
\* phase, under any sequence of commands and ticks.
PositionInBounds ==
    hasWorkout(S) =>
       /\ 0 <= phaseIndex /\ phaseIndex < Len(phases(S))
       /\ 0 <= exerciseIndex /\ exerciseIndex < totalExercises(S)
       /\ 1 <= round /\ round <= totalRounds(S)

\* C36 witness: prevStep has landed on the last exercise of the last round
\* of a multi-round phase that has a successor, the upper end of two of the
\* three ranges
PositionWitness ==
    /\ lastOp = "prevStep" /\ hasWorkout(S) /\ isStarted /\ ModeFlags(S) = 0
    /\ phaseIndex < Len(phases(S)) - 1
    /\ exerciseIndex = totalExercises(S) - 1 /\ exerciseIndex > 0
    /\ round = totalRounds(S) /\ round > 1

\* C36 witness: a tick has ended the workout, at the last phase
PositionAtEndWitness ==
    /\ lastOp = "tick" /\ hasWorkout(S) /\ isFinished
    /\ phaseIndex = Len(phases(S)) - 1 /\ phaseIndex > 0
    /\ round = totalRounds(S) /\ round > 1

(***************************************************************************)
(* Partner mode outside workout-type phases.                               *)
(***************************************************************************)
\* the fields of the successor state the claim lists, and the cues
Outcome(r) ==
    [phaseIndex |-> r.phaseIndex, exerciseIndex |-> r.exerciseIndex,
     round |-> r.round, timeLeft |-> r.timeLeft, isResting |-> r.isResting,
     isRoundRest |-> r.isRoundRest, isSwitchingSides |-> r.isSwitchingSides,
     currentSide |-> r.currentSide, isRunning |-> r.isRunning,
     isFinished |-> r.isFinished, cues |-> r.cues]

WithPartner(s, b) == [s EXCEPT !.partnerMode = b]

\* C37: while the current phase is not workout-type, partner mode has no
\* effect on progression: nextStep, prevStep and the tick give the same
\* successor (position, round, timeLeft, flags, side) and the same cues
\* with partnerMode true as with partnerMode false.
PartnerModeInert ==
    (hasWorkout(S) /\ ~isWorkoutPhase(S)) =>
       /\ Outcome(nextStep(WithPartner(S0, TRUE)))
            = Outcome(nextStep(WithPartner(S0, FALSE)))
       /\ Outcome(prevStep(WithPartner(S0, TRUE)))
            = Outcome(prevStep(WithPartner(S0, FALSE)))
       /\ Outcome(tick(WithPartner(S0, TRUE)))
            = Outcome(tick(WithPartner(S0, FALSE)))

\* C37 witness: partner mode is on in a warmup or cooldown phase and
\* nextStep has just sent the left side of a bilateral exercise into its
\* switch rest, which partner mode suppresses in a workout-type phase
PartnerModeInertWitness ==
    /\ hasWorkout(S) /\ ~isWorkoutPhase(S) /\ partnerMode /\ isStarted
    /\ lastOp = "nextStep" /\ isSwitchingSides /\ currentSide = "left"
    /\ cues = <<Cue("playChange", 0)>>

(***************************************************************************)
(* Sound.  Two runs that get the same commands and ticks and differ only   *)
(* in soundEnabled stay in step if every command and the tick, applied to  *)
(* two states that differ only in soundEnabled, give two states that       *)
(* differ only in soundEnabled and in the cues: this is checked for every  *)
(* reachable state, and the reachable states are closed under toggleSound. *)
(***************************************************************************)
Command(op, arg) == [op |-> op, arg |-> arg]

Commands ==
    {Command(op, 0) : op \in {"nextStep", "prevStep", "tick", "start",
                              "toggleRunning", "restart", "goToOverview",
                              "goToSelection", "togglePartnerMode"}}
      \cup {Command(op, i) : op \in {"startFromPhase", "goToPhase"}, i \in PhaseArgs}
      \cup {Command("setPartnerMode", b) : b \in BOOLEAN}

\* the handler c names, applied to s, and the isRunning watcher after it
Apply(c, s) ==
    LET r == CASE c.op = "nextStep" -> nextStep(s)
               [] c.op = "prevStep" -> prevStep(s)
               [] c.op = "tick" -> IF s.intervals > 0 THEN tick(s) ELSE s
               [] c.op = "start" -> start(s)
               [] c.op = "toggleRunning" -> toggleRunning(s)
               [] c.op = "restart" -> restart(s)
               [] c.op = "goToOverview" -> goToOverview(s)
               [] c.op = "goToSelection" -> goToSelection(s)
               [] c.op = "togglePartnerMode" -> togglePartnerMode(s)
               [] c.op = "startFromPhase" -> startFromPhase(s, c.arg)
               [] c.op = "goToPhase" -> goToPhase(s, c.arg)
               [] c.op = "setPartnerMode" -> setPartnerMode(s, c.arg)
    IN watchIsRunning(s, r)

WithSound(s, b) == [s EXCEPT !.soundEnabled = b]

\* C38: soundEnabled affects only cue emission: every command and the tick
\* give the same state, up to soundEnabled and the cues, whether sound is
\* enabled or not; toggleSound changes soundEnabled alone; with sound
\* disabled no cue is emitted.
SoundOnlyAffectsCues ==
    /\ \A c \in Commands :
          LET on == Apply(c, WithSound(S0, TRUE))
              off == Apply(c, WithSound(S0, FALSE))
          IN /\ off.cues = <<>>
             /\ [on EXCEPT !.cues = <<>>, !.soundEnabled = FALSE] = off
    /\ \A id \in WorkoutIds :
          selectWorkout(WithSound(S0, FALSE), id)
            = WithSound(selectWorkout(WithSound(S0, TRUE), id), FALSE)
    /\ toggleSound(S0) = [S0 EXCEPT !.soundEnabled = ~soundEnabled]
    /\ ~soundEnabled => cues = <<>>

\* C38 witness: sound is off and the interval has just ended a segment in
\* silence, where it plays a cue when sound is on
SoundOffWitness ==
    /\ lastOp = "tick" /\ ~soundEnabled /\ cues = <<>> /\ hasWorkout(S)
    /\ isRunning /\ isResting
    /\ Apply(Command("tick", 0), WithSound(S0, TRUE)).cues # <<>>
    /\ Apply(Command("tick", 0), S0).cues = <<>>

(***************************************************************************)
(* Concurrent wake-lock requests.                                          *)
(***************************************************************************)
\* C39: under every interleaving of requestWakeLock calls (from the
\* isRunning watcher and from visibility changes) with their asynchronous
\* completion, at most one wake-lock sentinel is acquired and not yet
\* released at any time, and no request is made while a lock is held or
\* being obtained.
AtMostOneSentinel ==
    /\ Cardinality(live) <= 1
    /\ requesting <= 1
    /\ requesting = 1 => live = {}

\* two sentinels are held, one of them no longer referenced by
\* wakeLock.value, and nothing is pending
LeakedSentinel ==
    /\ Cardinality(live) = 2 /\ wakeLock \in live /\ Quiet
    /\ isRunning /\ ~isFinished

(***************************************************************************)
(* setPartnerMode and togglePartnerMode.                                   *)
(***************************************************************************)
\* C40: setPartnerMode and togglePartnerMode change only the partnerMode
\* flag: phaseIndex, exerciseIndex, round, timeLeft, isResting, isRoundRest,
\* isSwitchingSides, currentSide, isRunning, isStarted and isFinished of the
\* segment in flight are left unchanged, and so are the timer and the
\* selection.
PartnerModeFrame ==
    /\ \A b \in BOOLEAN :
          watchIsRunning(S, setPartnerMode(S0, b)) = [S0 EXCEPT !.partnerMode = b]
    /\ watchIsRunning(S, togglePartnerMode(S0)) = [S0 EXCEPT !.partnerMode = ~partnerMode]
    /\ lastOp \in {"setPartnerMode", "togglePartnerMode"} => cues = <<>>

\* C40 witness: partner mode has just been switched on in the middle of a
\* switch rest of a workout-type phase, a segment partner mode never enters
\* by itself, and the segment goes on as it was
PartnerModeFrameWitness ==
    /\ lastOp \in {"setPartnerMode", "togglePartnerMode"} /\ partnerMode
    /\ hasWorkout(S) /\ isWorkoutPhase(S) /\ isRunning /\ timerInterval
    /\ isSwitchingSides /\ currentSide = "left"
    /\ timeLeft = switchDuration(currentExercise(S))

====
